---- MODULE Spec2Model ----
(***************************************************************************)
(* Editing core of kaka: the Transaction / ChangeSet model                 *)
(* (kaka-core/src/transaction.rs), the commit History                      *)
(* (kaka-core/src/history.rs), the Document transaction protocol           *)
(* (kaka-core/src/document/mod.rs), the editor commands that drive them   *)
(* (kaka/src/editor), the cursor movement commands                         *)
(* (kaka/src/editor/command/movement.rs) and the SpanIterator              *)
(* (kaka-core/src/span.rs).                                                *)
(*                                                                         *)
(* A text (ropey::Rope) is a sequence of characters; a character is a      *)
(* one-character string.  Panics (assert!, out-of-range rope access,       *)
(* arithmetic overflow of the debug build) are modelled by an ok flag in   *)
(* the value an operation returns and by the variable panicked.            *)
(***************************************************************************)
EXTENDS Integers, Sequences, FiniteSets, TLC

VARIABLES
    doc,        \* the current Document: [text, tx_context, history]
    buf,        \* the current Buffer: [mode, saved_column, text_pos, line_idx, line_char]
    panicked,   \* the process has aborted on a panic
    last,       \* the operation the last step performed and what it returned
    cmds,       \* number of commands dispatched (Spec) or calls made (SpecDoc)
    keys,       \* number of keys typed in Insert mode so far
    tx_orig,    \* SpecTx: the text T a Transaction is created on
    tx,         \* SpecTx: the Transaction under construction
    tx_calls,   \* SpecTx: number of builder calls made so far
    iter,       \* SpecSpan: the SpanIterator
    spans,      \* SpecSpan: the spans the iterator has yielded so far
    sel,        \* SpecVisual: the Selection of ModeData::Visual, if any
    editor      \* SpecEditor: buffers, current and the BufferId counter

vars == <<doc, buf, panicked, last, cmds, keys, tx_orig, tx, tx_calls, iter, spans,
          sel, editor>>

edvars == <<doc, buf, panicked, last, cmds, keys>>
txvars == <<tx_orig, tx, tx_calls>>
spanvars == <<iter, spans>>
selvars == <<sel, editor>>

-----------------------------------------------------------------------------
(* Bounds of the model                                                     *)

\* builder calls made on one Transaction in SpecTx
MaxCalls == 4
\* largest repeat count given to set_repeat and typed before a command
MaxRepeat == 2
\* commands dispatched through the keymaps in Spec
MaxCmds == 4
\* keys typed in Insert mode in Spec
MaxKeys == 3

-----------------------------------------------------------------------------
(* Characters                                                              *)

NL == "\n"
\* stands for a character whose UTF-8 encoding has two bytes (U+00E9)
Eacute == "E"

\* stands for a character of display width 2 (U+5B57), three bytes in UTF-8
Wide == "W"

\* str::len of a one-character string: the length of its UTF-8 encoding
Utf8Len(c) == IF c = Eacute THEN 2 ELSE IF c = Wide THEN 3 ELSE 1

\* UnicodeWidthChar::width(c).unwrap_or(1)
width(c) == IF c = Wide THEN 2 ELSE 1

RECURSIVE StrByteLen(_)
\* SmartString::len: the byte length of a string
StrByteLen(s) == IF s = <<>> THEN 0 ELSE Utf8Len(Head(s)) + StrByteLen(Tail(s))

\* s.chars().count()
StrCharLen(s) == Len(s)

-----------------------------------------------------------------------------
(* ropey::Rope, by character index                                         *)

len_chars(rope) == Len(rope)

\* Rope::insert(char_idx, text) panics when char_idx > len_chars
RopeInsertOk(rope, pos) == pos >= 0 /\ pos <= Len(rope)
RopeInsert(rope, pos, s) ==
    SubSeq(rope, 1, pos) \o s \o SubSeq(rope, pos + 1, Len(rope))

\* Rope::remove(a..b) and Rope::slice(a..b) panic unless a <= b <= len_chars
RopeRangeOk(rope, a, b) == 0 <= a /\ a <= b /\ b <= Len(rope)
RopeRemove(rope, a, b) == SubSeq(rope, 1, a) \o SubSeq(rope, b + 1, Len(rope))
RopeSlice(rope, a, b) == SubSeq(rope, a + 1, b)

\* number of line breaks among the first n characters
CountNL(rope, n) == Cardinality({i \in 1..n : rope[i] = NL})

len_lines(rope) == 1 + CountNL(rope, Len(rope))

\* Rope::char_to_line(char_idx) panics when char_idx > len_chars
char_to_line_ok(rope, pos) == pos >= 0 /\ pos <= Len(rope)
char_to_line(rope, pos) == CountNL(rope, pos)

\* Rope::line_to_char(line_idx) panics when line_idx > len_lines; one past
\* the last line it gives len_chars
line_to_char_ok(rope, line_idx) == line_idx >= 0 /\ line_idx <= len_lines(rope)
line_to_char(rope, line_idx) ==
    IF line_idx = 0 THEN 0
    ELSE IF line_idx >= len_lines(rope) THEN Len(rope)
    ELSE CHOOSE i \in 1..Len(rope) : rope[i] = NL /\ CountNL(rope, i) = line_idx

\* Rope::line(line_idx) panics when line_idx >= len_lines; the slice holds
\* the line break that ends the line
line_ok(rope, line_idx) == line_idx >= 0 /\ line_idx < len_lines(rope)
line(rope, line_idx) ==
    RopeSlice(rope, line_to_char(rope, line_idx), line_to_char(rope, line_idx + 1))

\* Rope::get_char(char_idx): [some, v]
get_char(rope, pos) ==
    IF pos >= 0 /\ pos < Len(rope) THEN [some |-> TRUE, v |-> rope[pos + 1]]
    ELSE [some |-> FALSE, v |-> ""]

\* graphemes::nth_next_grapheme_boundary(slice, char_idx, n) for a text in
\* which every character is a grapheme cluster of its own
nth_next_grapheme_boundary(slice, char_idx, n) ==
    IF char_idx + n > Len(slice) THEN Len(slice) ELSE char_idx + n

\* graphemes::nth_prev_grapheme_boundary(slice, char_idx, n), likewise
nth_prev_grapheme_boundary(slice, char_idx, n) ==
    IF n > char_idx THEN 0 ELSE char_idx - n

-----------------------------------------------------------------------------
(* Change, ChangeSet (transaction.rs)                                      *)

MoveForward(count) == [kind |-> "MoveForward", n |-> count, content |-> <<>>]
Insert(string) == [kind |-> "Insert", n |-> 0, content |-> string]
Delete(len) == [kind |-> "Delete", n |-> len, content |-> <<>>]

ChangeSet_new(pos) == [start_pos |-> pos, end_pos |-> pos, changes |-> <<>>]

LastKind(changes) == IF changes = <<>> THEN "none" ELSE changes[Len(changes)].kind

ReplaceLast(changes, c) == [changes EXCEPT ![Len(changes)] = c]

\* insert that puts the string before the content it merges with
ChangeSet_insert_prepend(cs, string) ==
    IF StrCharLen(string) = 0 THEN cs
    ELSE [cs EXCEPT
            !.changes =
                IF LastKind(cs.changes) = "Insert"
                THEN ReplaceLast(cs.changes,
                        Insert(string \o cs.changes[Len(cs.changes)].content))
                ELSE Append(cs.changes, Insert(string)),
            !.end_pos = cs.end_pos + StrCharLen(string)]

\* ChangeSet::insert; the value returned (strlen) is StrCharLen(string)
ChangeSet_insert(cs, string) ==
    IF StrCharLen(string) = 0 THEN cs
    ELSE [cs EXCEPT
            !.changes =
                IF LastKind(cs.changes) = "Insert"
                THEN ReplaceLast(cs.changes,
                        Insert(cs.changes[Len(cs.changes)].content \o string))
                ELSE Append(cs.changes, Insert(string)),
            !.end_pos = cs.end_pos + StrCharLen(string)]

ChangeSet_move_forward_by(cs, count) ==
    [cs EXCEPT
        !.changes =
            IF LastKind(cs.changes) = "MoveForward"
            THEN ReplaceLast(cs.changes,
                    MoveForward(cs.changes[Len(cs.changes)].n + count))
            ELSE Append(cs.changes, MoveForward(count)),
        !.end_pos = cs.end_pos + count]

\* delete without the return on len == 0
ChangeSet_delete_unguarded(cs, len) ==
    [cs EXCEPT
        !.changes =
            IF LastKind(cs.changes) = "Delete"
            THEN ReplaceLast(cs.changes,
                    Delete(cs.changes[Len(cs.changes)].n + len))
            ELSE Append(cs.changes, Delete(len))]

ChangeSet_delete(cs, len) ==
    IF len = 0 THEN cs
    ELSE [cs EXCEPT
            !.changes =
                IF LastKind(cs.changes) = "Delete"
                THEN ReplaceLast(cs.changes,
                        Delete(cs.changes[Len(cs.changes)].n + len))
                ELSE Append(cs.changes, Delete(len))]

\* One arm of the match in ChangeSet::apply.  st = [rope, pos, ok].  A
\* negative pos stands for the usize that the cast of a negative isize
\* gives (2^64 + pos): adding to it overflows as soon as the sum reaches 0.
ApplyChange(c, st) ==
    IF ~st.ok THEN st
    ELSE IF c.kind = "MoveForward"
    THEN [st EXCEPT !.pos = st.pos + c.n,
                    !.ok = ~(st.pos < 0 /\ st.pos + c.n >= 0)]
    ELSE IF c.kind = "Insert"
    THEN IF RopeInsertOk(st.rope, st.pos)
         THEN [rope |-> RopeInsert(st.rope, st.pos, c.content),
               pos |-> st.pos + StrByteLen(c.content),
               ok |-> TRUE]
         ELSE [st EXCEPT !.ok = FALSE]
    ELSE IF RopeRangeOk(st.rope, st.pos, st.pos + c.n)
         THEN [st EXCEPT !.rope = RopeRemove(st.rope, st.pos, st.pos + c.n)]
         ELSE [st EXCEPT !.ok = FALSE]

RECURSIVE ApplyChanges(_, _, _)
ApplyChanges(changes, i, st) ==
    IF i > Len(changes) THEN st
    ELSE ApplyChanges(changes, i + 1, ApplyChange(changes[i], st))

\* ChangeSet::apply(offset, rope): [rope, pos, ok]
ChangeSet_apply(cs, offset, rope) ==
    ApplyChanges(cs.changes, 1,
                 [rope |-> rope, pos |-> offset + cs.start_pos, ok |-> TRUE])

\* changes_text that counts a cursor move as a change
ChangeSet_changes_text_any(cs) == cs.changes # <<>>

\* ChangeSet::changes_text()
ChangeSet_changes_text(cs) ==
    \E i \in 1..Len(cs.changes) : cs.changes[i].kind \in {"Insert", "Delete"}

\* One arm of the match in ChangeSet::undo.  st = [cs, ok] is the revert
\* changeset built so far.
UndoChange(c, original, st) ==
    IF ~st.ok THEN st
    ELSE IF c.kind = "MoveForward"
    THEN [st EXCEPT !.cs = ChangeSet_move_forward_by(st.cs, c.n)]
    ELSE IF c.kind = "Insert"
    THEN [st EXCEPT !.cs = ChangeSet_delete(st.cs, StrCharLen(c.content))]
    ELSE LET pos == st.cs.end_pos
         IN  IF RopeRangeOk(original, pos, pos + c.n)
             THEN [st EXCEPT !.cs =
                     ChangeSet_insert(st.cs, RopeSlice(original, pos, pos + c.n))]
             ELSE [st EXCEPT !.ok = FALSE]

RECURSIVE UndoChanges(_, _, _, _)
UndoChanges(changes, i, original, st) ==
    IF i > Len(changes) THEN st
    ELSE UndoChanges(changes, i + 1, original, UndoChange(changes[i], original, st))

\* ChangeSet::undo(original): [cs, ok]
ChangeSet_undo(cs, original) ==
    UndoChanges(cs.changes, 1, original,
                [cs |-> ChangeSet_new(cs.start_pos), ok |-> TRUE])

-----------------------------------------------------------------------------
(* Transaction (transaction.rs)                                            *)

Transaction_new(rope, pos) ==
    [repeat |-> 1,
     len_before |-> len_chars(rope),
     len_after |-> len_chars(rope),
     changesets |-> <<ChangeSet_new(pos)>>]

changeset_head(t) == t.changesets[Len(t.changesets)]

WithHead(t, cs) == [t EXCEPT !.changesets[Len(t.changesets)] = cs]

Transaction_insert(t, string) ==
    IF string = <<>> THEN t
    ELSE [WithHead(t, ChangeSet_insert(changeset_head(t), string))
            EXCEPT !.len_after = t.len_after + StrCharLen(string)]

Transaction_insert_char(t, c) == Transaction_insert(t, <<c>>)

Transaction_move_forward_by(t, count) ==
    WithHead(t, ChangeSet_move_forward_by(changeset_head(t), count))

\* the subtractions underflow (a panic of the debug build) when count is
\* larger than the position it is taken from
Transaction_move_backward_by_ok(t, count) == count <= changeset_head(t).end_pos /\
    (changeset_head(t).changes = <<>> => count <= changeset_head(t).start_pos)

Transaction_move_backward_by(t, count) ==
    LET head == changeset_head(t)
    IN  IF head.changes = <<>>
        THEN WithHead(t, [head EXCEPT !.start_pos = head.start_pos - count,
                                      !.end_pos = head.end_pos - count])
        ELSE [t EXCEPT !.changesets =
                Append(t.changesets, ChangeSet_new(head.end_pos - count))]

\* move_to that never moves backward
Transaction_move_to_forward(t, pos) ==
    LET end_pos == changeset_head(t).end_pos
    IN  IF pos > end_pos THEN Transaction_move_forward_by(t, pos - end_pos)
        ELSE t

Transaction_move_to_ok(t, pos) ==
    pos < changeset_head(t).end_pos =>
        Transaction_move_backward_by_ok(t, changeset_head(t).end_pos - pos)

Transaction_move_to(t, pos) ==
    LET end_pos == changeset_head(t).end_pos
    IN  IF pos > end_pos THEN Transaction_move_forward_by(t, pos - end_pos)
        ELSE IF pos < end_pos THEN Transaction_move_backward_by(t, end_pos - pos)
        ELSE t

Transaction_delete(t, len) == WithHead(t, ChangeSet_delete(changeset_head(t), len))

\* NonZeroUsize: set_repeat(0) panics
Transaction_set_repeat_ok(repeat) == repeat >= 1
Transaction_set_repeat(t, repeat) == [t EXCEPT !.repeat = repeat]

RECURSIVE ApplyChangeSets(_, _, _, _)
\* the inner loop of apply_impl: pos is overwritten by every changeset
ApplyChangeSets(css, i, offset, st) ==
    IF i > Len(css) \/ ~st.ok THEN st
    ELSE ApplyChangeSets(css, i + 1, offset, ChangeSet_apply(css[i], offset, st.rope))

RECURSIVE ApplyPasses(_, _, _, _)
\* the outer loop of apply_impl; offset = [some, v] is the Option<isize>
ApplyPasses(t, n, offset, st) ==
    IF n <= 0 \/ ~st.ok THEN st
    ELSE LET st1 == ApplyChangeSets(t.changesets, 1,
                        IF offset.some THEN offset.v ELSE 0, st)
             offset1 == IF offset.some THEN offset
                        ELSE [some |-> TRUE,
                              v |-> st1.pos - t.changesets[1].start_pos]
         IN  ApplyPasses(t, n - 1, offset1, st1)

\* Transaction::apply_impl(rope, only_repeats): [rope, pos, ok]
Transaction_apply_impl(t, rope, only_repeats) ==
    ApplyPasses(t, t.repeat - (IF only_repeats THEN 1 ELSE 0),
                [some |-> FALSE, v |-> 0],
                [rope |-> rope, pos |-> 0, ok |-> TRUE])

Transaction_apply(t, rope) == Transaction_apply_impl(t, rope, FALSE)

Transaction_apply_repeats(t, rope) == Transaction_apply_impl(t, rope, TRUE)

RECURSIVE UndoChangeSets(_, _, _)
\* changesets.iter().map(|c| c.undo(original)) followed by reverse():
\* the revert changesets, last one first; <<>> marks a panic
UndoChangeSets(css, i, original) ==
    IF i > Len(css) THEN [css |-> <<>>, ok |-> TRUE]
    ELSE LET u == ChangeSet_undo(css[i], original)
             rest == UndoChangeSets(css, i + 1, original)
         IN  [css |-> rest.css \o <<u.cs>>, ok |-> u.ok /\ rest.ok]

\* Transaction::undo(original): [tx, ok]
Transaction_undo(t, original) ==
    LET revert == UndoChangeSets(t.changesets, 1, original)
    IN  [tx |-> [repeat |-> t.repeat,
                 len_before |-> t.len_after,
                 len_after |-> t.len_after,
                 changesets |-> revert.css],
         ok |-> revert.ok /\ len_chars(original) = t.len_before]

Transaction_changes_text(t) ==
    \E i \in 1..Len(t.changesets) : ChangeSet_changes_text(t.changesets[i])

-----------------------------------------------------------------------------
(* History, Commit (history.rs).  A Commit's timestamp is left out: it is  *)
(* never read by the editing core.                                         *)

History_default == [commits |-> <<>>, head |-> 0]

\* Commit::new / Commit::with_timestamp: [commit, ok]
Commit_new(text, t) ==
    LET inversion == Transaction_undo(t, text)
    IN  [commit |-> [transaction |-> t, inversion |-> inversion.tx],
         ok |-> inversion.ok]

\* create_commit that forgets the `while self.head < self.commits.len()`
\* loop: the commits ahead of head stay
History_create_commit_keep_ahead(h, text, t) ==
    IF ~Transaction_changes_text(t) THEN [history |-> h, ok |-> TRUE]
    ELSE LET c == Commit_new(text, t)
         IN  [history |-> [commits |-> Append(h.commits, c.commit),
                           head |-> h.head + 1],
              ok |-> c.ok]

\* History::create_commit(text, tx): [history, ok]
History_create_commit(h, text, t) ==
    IF ~Transaction_changes_text(t) THEN [history |-> h, ok |-> TRUE]
    ELSE LET c == Commit_new(text, t)
             kept == IF h.head < Len(h.commits)
                     THEN SubSeq(h.commits, 1, h.head)
                     ELSE h.commits
         IN  [history |-> [commits |-> Append(kept, c.commit),
                           head |-> h.head + 1],
              ok |-> c.ok]

\* an Option<&Transaction> that is None
NoTransaction == [some |-> FALSE, tx |-> Transaction_new(<<>>, 0)]

\* undo that pops the commit it hands out
History_undo_pops(h) ==
    IF h.head = 0 THEN [history |-> h, ret |-> NoTransaction, ok |-> TRUE]
    ELSE IF h.head - 1 < Len(h.commits)
    THEN [history |-> [commits |-> SubSeq(h.commits, 1, h.head - 1),
                       head |-> h.head - 1],
          ret |-> [some |-> TRUE, tx |-> h.commits[h.head].inversion],
          ok |-> TRUE]
    ELSE [history |-> h, ret |-> NoTransaction, ok |-> FALSE]

\* History::undo(): [history, ret, ok]
History_undo(h) ==
    IF h.head = 0 THEN [history |-> h, ret |-> NoTransaction, ok |-> TRUE]
    ELSE IF h.head - 1 < Len(h.commits)
    THEN [history |-> [h EXCEPT !.head = h.head - 1],
          ret |-> [some |-> TRUE, tx |-> h.commits[h.head].inversion],
          ok |-> TRUE]
    ELSE [history |-> h, ret |-> NoTransaction, ok |-> FALSE]

\* redo that moves head before it looks at commits.len()
History_redo_unchecked(h) ==
    [history |-> [h EXCEPT !.head = h.head + 1],
     ret |-> IF h.head < Len(h.commits)
             THEN [some |-> TRUE, tx |-> h.commits[h.head + 1].transaction]
             ELSE NoTransaction,
     ok |-> TRUE]

\* redo that hands out the newest commit again at the end of history
History_redo_again(h) ==
    IF h.head < Len(h.commits)
    THEN [history |-> [h EXCEPT !.head = h.head + 1],
          ret |-> [some |-> TRUE, tx |-> h.commits[h.head + 1].transaction],
          ok |-> TRUE]
    ELSE IF h.head > 0
    THEN [history |-> h,
          ret |-> [some |-> TRUE, tx |-> h.commits[h.head].transaction],
          ok |-> TRUE]
    ELSE [history |-> h, ret |-> NoTransaction, ok |-> TRUE]

\* History::redo(): [history, ret, ok]
History_redo(h) ==
    IF h.head < Len(h.commits)
    THEN [history |-> [h EXCEPT !.head = h.head + 1],
          ret |-> [some |-> TRUE, tx |-> h.commits[h.head + 1].transaction],
          ok |-> TRUE]
    ELSE [history |-> h, ret |-> NoTransaction, ok |-> TRUE]

-----------------------------------------------------------------------------
(* Document (document/mod.rs): [text, tx_context, history]                 *)

\* tx_context: None
NoContext == [some |-> FALSE, transaction |-> Transaction_new(<<>>, 0),
              saved_text |-> <<>>]

SomeContext(t, saved_text) ==
    [some |-> TRUE, transaction |-> t, saved_text |-> saved_text]

\* an Option<usize>
None == [some |-> FALSE, v |-> 0]
Some(v) == [some |-> TRUE, v |-> v]

Document_new(text) ==
    [text |-> text, tx_context |-> NoContext, history |-> History_default]

Document_transaction_active(d) == d.tx_context.some

\* open_transaction that takes a new snapshot on every call
Document_open_transaction_recapture(d, pos) ==
    [doc |-> [d EXCEPT !.tx_context =
                    SomeContext(Transaction_new(d.text, pos), d.text)],
     ok |-> TRUE]

\* Document::open_transaction(pos): [doc, ok]
Document_open_transaction(d, pos) ==
    IF d.tx_context.some
    THEN [doc |-> [d EXCEPT !.tx_context.transaction =
                        Transaction_move_to(d.tx_context.transaction, pos)],
          ok |-> Transaction_move_to_ok(d.tx_context.transaction, pos)]
    ELSE [doc |-> [d EXCEPT !.tx_context =
                        SomeContext(Transaction_new(d.text, pos), d.text)],
          ok |-> TRUE]

\* What a callback given to with_transaction did: the text it left in the
\* document, the transaction it built, the directive it returned, and
\* whether it ran to its end.
Callback(text, t, leave, ok) ==
    [text |-> text, transaction |-> t, leave |-> leave, ok |-> ok]

\* with_transaction whose Rollback arm leaves the text as the callback
\* left it
Document_with_transaction_keep_text(d, cb) ==
    IF ~d.tx_context.some \/ ~cb.ok THEN [doc |-> d, ok |-> FALSE]
    ELSE IF cb.leave = "Commit"
    THEN LET c == History_create_commit(d.history, d.tx_context.saved_text,
                                        cb.transaction)
         IN  [doc |-> [text |-> cb.text, tx_context |-> NoContext,
                       history |-> c.history],
              ok |-> c.ok]
    ELSE IF cb.leave = "Keep"
    THEN [doc |-> [text |-> cb.text,
                   tx_context |-> SomeContext(cb.transaction,
                                              d.tx_context.saved_text),
                   history |-> d.history],
          ok |-> TRUE]
    ELSE [doc |-> [text |-> cb.text, tx_context |-> NoContext,
                   history |-> d.history],
          ok |-> TRUE]

\* with_transaction whose Keep arm commits what the transaction holds so
\* far
Document_with_transaction_commit_each(d, cb) ==
    IF ~d.tx_context.some \/ ~cb.ok THEN [doc |-> d, ok |-> FALSE]
    ELSE IF cb.leave \in {"Commit", "Keep"}
    THEN LET c == History_create_commit(d.history, d.tx_context.saved_text,
                                        cb.transaction)
         IN  [doc |-> [text |-> cb.text,
                       tx_context |-> IF cb.leave = "Keep"
                                      THEN SomeContext(cb.transaction,
                                                       d.tx_context.saved_text)
                                      ELSE NoContext,
                       history |-> c.history],
              ok |-> c.ok]
    ELSE [doc |-> [text |-> d.tx_context.saved_text, tx_context |-> NoContext,
                   history |-> d.history],
          ok |-> TRUE]

\* Document::with_transaction(callback): [doc, ok].  cb is the outcome of
\* the callback, which ran on the document with its tx_context taken out.
Document_with_transaction(d, cb) ==
    IF ~d.tx_context.some \/ ~cb.ok THEN [doc |-> d, ok |-> FALSE]
    ELSE IF cb.leave = "Commit"
    THEN LET c == History_create_commit(d.history, d.tx_context.saved_text,
                                        cb.transaction)
         IN  [doc |-> [text |-> cb.text, tx_context |-> NoContext,
                       history |-> c.history],
              ok |-> c.ok]
    ELSE IF cb.leave = "Keep"
    THEN [doc |-> [text |-> cb.text,
                   tx_context |-> SomeContext(cb.transaction,
                                              d.tx_context.saved_text),
                   history |-> d.history],
          ok |-> TRUE]
    ELSE [doc |-> [text |-> d.tx_context.saved_text, tx_context |-> NoContext,
                   history |-> d.history],
          ok |-> TRUE]

\* the first half of Document::with_new_transaction(pos, callback): the
\* assertion and the new context; [doc, ok]
Document_new_transaction(d, pos) ==
    [doc |-> [d EXCEPT !.tx_context =
                    SomeContext(Transaction_new(d.text, pos), d.text)],
     ok |-> ~d.tx_context.some]

\* history.undo().map(|tx| tx.apply(&mut self.text)) and the same with
\* redo: [doc, ret, ok], h the outcome of History::undo / History::redo
ApplyHistory(d, h) ==
    IF ~h.ok THEN [doc |-> d, ret |-> None, ok |-> FALSE]
    ELSE IF ~h.ret.some
    THEN [doc |-> [d EXCEPT !.history = h.history], ret |-> None, ok |-> TRUE]
    ELSE LET a == Transaction_apply(h.ret.tx, d.text)
         IN  [doc |-> [d EXCEPT !.history = h.history, !.text = a.rope],
              ret |-> Some(a.pos),
              ok |-> a.ok]

\* Document::undo(): [doc, ret, ok]
Document_undo(d) == ApplyHistory(d, History_undo(d.history))

\* Document::redo(): [doc, ret, ok]
Document_redo(d) == ApplyHistory(d, History_redo(d.history))

-----------------------------------------------------------------------------
(* Buffer (editor/buffer.rs): [avail_modes, mode, saved_column, text_pos,  *)
(* line_idx, line_char]                                                    *)

Min(a, b) == IF a < b THEN a ELSE b
Max(a, b) == IF a > b THEN a ELSE b
\* usize::saturating_sub
SatSub(a, b) == IF a > b THEN a - b ELSE 0

\* UpdateBufPositionParams
Params(update_saved_column, line_keep, allow_on_newline) ==
    [update_saved_column |-> update_saved_column,
     line_keep |-> line_keep,
     allow_on_newline |-> allow_on_newline]

Params_default == Params(TRUE, FALSE, FALSE)

Params_inserting_text == Params(TRUE, FALSE, TRUE)

\* Buffer::switch_mode / set_mode_impl: a mode the buffer is not capable
\* of is ignored
Buffer_switch_mode(b, mode) ==
    IF mode \in b.avail_modes THEN [b EXCEPT !.mode = mode] ELSE b

\* the line_keep block of update_text_position: [new_pos, ok]
LineKeep(b, text, pos, line_keep) ==
    IF ~line_keep \/ char_to_line(text, pos) = b.line_idx
    THEN [new_pos |-> pos, ok |-> TRUE]
    ELSE IF char_to_line(text, pos) < b.line_idx
    THEN [new_pos |-> b.line_char,
          ok |-> char_to_line_ok(text, b.line_char)
                 /\ char_to_line(text, b.line_char) = b.line_idx]
    ELSE LET next_line_idx == Min(b.line_idx + 1, SatSub(len_lines(text), 1))
             next_line_char == line_to_char(text, next_line_idx)
         IN  [new_pos |-> next_line_char - 1,
              ok |-> next_line_char >= 1
                     /\ char_to_line(text, next_line_char - 1) = b.line_idx]

\* update_text_position without the step back from a newline
Buffer_update_text_position_on_newline(b, text, pos, params) ==
    IF pos > len_chars(text) THEN [buf |-> b, ret |-> None, ok |-> TRUE]
    ELSE
    LET keep == LineKeep(b, text, pos, params.line_keep)
        line_idx == IF params.line_keep THEN b.line_idx
                    ELSE char_to_line(text, pos)
        line_char == IF line_idx # b.line_idx THEN line_to_char(text, line_idx)
                     ELSE b.line_char
        ln == line(text, line_idx)
        new_pos == keep.new_pos
        ok == /\ keep.ok
              /\ line_ok(text, line_idx)
              /\ new_pos >= 0
              /\ (params.update_saved_column => new_pos >= line_char)
    IN  IF ~ok THEN [buf |-> b, ret |-> None, ok |-> FALSE]
        ELSE [buf |-> [b EXCEPT
                        !.line_idx = line_idx,
                        !.line_char = line_char,
                        !.text_pos = new_pos,
                        !.saved_column =
                            IF params.update_saved_column
                            THEN nth_next_grapheme_boundary(ln, 0, new_pos - line_char)
                            ELSE b.saved_column],
              ret |-> IF new_pos # pos THEN Some(new_pos) ELSE None,
              ok |-> TRUE]

\* update_text_position that follows the target to its line also when
\* line_keep is set
Buffer_update_text_position_follow(b, text, pos, params) ==
    IF pos > len_chars(text) THEN [buf |-> b, ret |-> None, ok |-> TRUE]
    ELSE
    LET keep == LineKeep(b, text, pos, FALSE)
        line_idx == char_to_line(text, pos)
        line_char == IF line_idx # b.line_idx THEN line_to_char(text, line_idx)
                     ELSE b.line_char
        ln == line(text, line_idx)
        ch == get_char(text, keep.new_pos)
        retreat == /\ ~params.allow_on_newline
                   /\ Len(ln) > 1
                   /\ (~ch.some \/ ch.v = NL)
        new_pos == IF retreat THEN keep.new_pos - 1 ELSE keep.new_pos
        ok == /\ keep.ok
              /\ line_ok(text, line_idx)
              /\ new_pos >= 0
              /\ (params.update_saved_column => new_pos >= line_char)
    IN  IF ~ok THEN [buf |-> b, ret |-> None, ok |-> FALSE]
        ELSE [buf |-> [b EXCEPT
                        !.line_idx = line_idx,
                        !.line_char = line_char,
                        !.text_pos = new_pos,
                        !.saved_column =
                            IF params.update_saved_column
                            THEN nth_next_grapheme_boundary(ln, 0, new_pos - line_char)
                            ELSE b.saved_column],
              ret |-> IF new_pos # pos THEN Some(new_pos) ELSE None,
              ok |-> TRUE]

\* update_text_position that compares the resolved position with the
\* position the cursor had
Buffer_update_text_position_moved(b, text, pos, params) ==
    IF pos > len_chars(text) THEN [buf |-> b, ret |-> None, ok |-> TRUE]
    ELSE
    LET keep == LineKeep(b, text, pos, params.line_keep)
        line_idx == IF params.line_keep THEN b.line_idx
                    ELSE char_to_line(text, pos)
        line_char == IF line_idx # b.line_idx THEN line_to_char(text, line_idx)
                     ELSE b.line_char
        ln == line(text, line_idx)
        ch == get_char(text, keep.new_pos)
        retreat == /\ ~params.allow_on_newline
                   /\ Len(ln) > 1
                   /\ (~ch.some \/ ch.v = NL)
        new_pos == IF retreat THEN keep.new_pos - 1 ELSE keep.new_pos
        ok == /\ keep.ok
              /\ line_ok(text, line_idx)
              /\ new_pos >= 0
              /\ (params.update_saved_column => new_pos >= line_char)
    IN  IF ~ok THEN [buf |-> b, ret |-> None, ok |-> FALSE]
        ELSE [buf |-> [b EXCEPT
                        !.line_idx = line_idx,
                        !.line_char = line_char,
                        !.text_pos = new_pos,
                        !.saved_column =
                            IF params.update_saved_column
                            THEN nth_next_grapheme_boundary(ln, 0, new_pos - line_char)
                            ELSE b.saved_column],
              ret |-> IF new_pos # b.text_pos THEN Some(new_pos) ELSE None,
              ok |-> TRUE]

\* update_text_position that saves the distance from the start of the text
Buffer_update_text_position_from_start(b, text, pos, params) ==
    IF pos > len_chars(text) THEN [buf |-> b, ret |-> None, ok |-> TRUE]
    ELSE
    LET keep == LineKeep(b, text, pos, params.line_keep)
        line_idx == IF params.line_keep THEN b.line_idx
                    ELSE char_to_line(text, pos)
        line_char == IF line_idx # b.line_idx THEN line_to_char(text, line_idx)
                     ELSE b.line_char
        ln == line(text, line_idx)
        ch == get_char(text, keep.new_pos)
        retreat == /\ ~params.allow_on_newline
                   /\ Len(ln) > 1
                   /\ (~ch.some \/ ch.v = NL)
        new_pos == IF retreat THEN keep.new_pos - 1 ELSE keep.new_pos
        ok == /\ keep.ok
              /\ line_ok(text, line_idx)
              /\ new_pos >= 0
              /\ (params.update_saved_column => new_pos >= line_char)
    IN  IF ~ok THEN [buf |-> b, ret |-> None, ok |-> FALSE]
        ELSE [buf |-> [b EXCEPT
                        !.line_idx = line_idx,
                        !.line_char = line_char,
                        !.text_pos = new_pos,
                        !.saved_column =
                            IF params.update_saved_column
                            THEN new_pos
                            ELSE b.saved_column],
              ret |-> IF new_pos # pos THEN Some(new_pos) ELSE None,
              ok |-> TRUE]

\* Buffer::update_text_position(rope, pos, params): [buf, ret, ok]
Buffer_update_text_position(b, text, pos, params) ==
    IF pos > len_chars(text) THEN [buf |-> b, ret |-> None, ok |-> TRUE]
    ELSE
    LET keep == LineKeep(b, text, pos, params.line_keep)
        line_idx == IF params.line_keep THEN b.line_idx
                    ELSE char_to_line(text, pos)
        line_char == IF line_idx # b.line_idx THEN line_to_char(text, line_idx)
                     ELSE b.line_char
        ln == line(text, line_idx)
        ch == get_char(text, keep.new_pos)
        retreat == /\ ~params.allow_on_newline
                   /\ Len(ln) > 1
                   /\ (~ch.some \/ ch.v = NL)
        new_pos == IF retreat THEN keep.new_pos - 1 ELSE keep.new_pos
        ok == /\ keep.ok
              /\ line_ok(text, line_idx)
              /\ new_pos >= 0
              /\ (params.update_saved_column => new_pos >= line_char)
    IN  IF ~ok THEN [buf |-> b, ret |-> None, ok |-> FALSE]
        ELSE [buf |-> [b EXCEPT
                        !.line_idx = line_idx,
                        !.line_char = line_char,
                        !.text_pos = new_pos,
                        !.saved_column =
                            IF params.update_saved_column
                            THEN nth_next_grapheme_boundary(ln, 0, new_pos - line_char)
                            ELSE b.saved_column],
              ret |-> IF new_pos # pos THEN Some(new_pos) ELSE None,
              ok |-> TRUE]

TextModes == {"Normal", "Insert", "Visual"}

\* Buffer::new_text(pos, document) / Buffer::new: [buf, ok]; ok is false
\* when the start position is out of bounds (an Err, not a panic)
Buffer_new_text(pos, d) ==
    LET this == [avail_modes |-> TextModes, mode |-> "Normal", saved_column |-> 0,
                 text_pos |-> 0, line_idx |-> 0, line_char |-> 0]
        u == Buffer_update_text_position(this, d.text, pos, Params_default)
    IN  [buf |-> u.buf, ok |-> pos <= SatSub(len_chars(d.text), 1) /\ u.ok]

LoggingModes == {"Normal", "Visual"}

\* Buffer::new_logging(document): Buffer::new(0, [Normal, Visual], ..)
Buffer_new_logging(d) ==
    LET this == [avail_modes |-> LoggingModes, mode |-> "Normal", saved_column |-> 0,
                 text_pos |-> 0, line_idx |-> 0, line_char |-> 0]
        u == Buffer_update_text_position(this, d.text, 0, Params_default)
    IN  [buf |-> u.buf, ok |-> 0 <= SatSub(len_chars(d.text), 1) /\ u.ok]

-----------------------------------------------------------------------------
(* Commands (editor/command/*.rs).  Each gives [buf, doc, ok] and what the *)
(* action that runs it records in last.                                    *)

Failed(b, d) == [buf |-> b, doc |-> d, ok |-> FALSE]

\* switch_to_insert_mode_impl(ctx, switch), count = ctx.count
switch_to_insert_mode_impl(b0, d, switch, count) ==
    LET repeat == Max(IF count.some THEN count.v ELSE 1, 1)
        b == Buffer_switch_mode(b0, "Insert")
        pos == b.text_pos
        ln == line(d.text, b.line_idx)
        line_char == b.line_char
        approx_new_pos ==
            CASE switch = "Inplace" -> pos
              [] switch = "LineStart" -> line_char
              [] switch = "After" ->
                    line_char + nth_next_grapheme_boundary(ln, pos - line_char, 1)
              [] switch = "LineEnd" -> line_char + Len(ln)
        insert_after_cursor == switch \in {"After", "LineEnd"}
        u == Buffer_update_text_position(b, d.text, approx_new_pos,
                Params(TRUE, insert_after_cursor, insert_after_cursor))
        o == Document_open_transaction(d,
                IF u.ret.some THEN u.ret.v ELSE approx_new_pos)
        w == Document_with_transaction(o.doc,
                Callback(o.doc.text,
                         Transaction_set_repeat(o.doc.tx_context.transaction, repeat),
                         "Keep", TRUE))
    IN  IF /\ line_ok(d.text, b.line_idx)
           /\ (switch = "After" => pos >= line_char)
           /\ u.ok
           /\ o.ok
           /\ w.ok
        THEN [buf |-> u.buf, doc |-> w.doc, ok |-> TRUE]
        ELSE Failed(b0, d)

\* the match on event.code in the callback of insert_mode_on_key:
\* [text, tx, pos, ok]
InsertKeyEdit(text, t, pos, key) ==
    LET same == [text |-> text, tx |-> t, pos |-> pos, ok |-> TRUE]
        bad == [same EXCEPT !.ok = FALSE]
    IN  CASE key \notin {"Backspace", "Left", "Right"} ->
                LET c == IF key = "Enter" THEN NL ELSE key
                IN  IF RopeInsertOk(text, pos)
                    THEN [text |-> RopeInsert(text, pos, <<c>>),
                          tx |-> Transaction_insert_char(t, c),
                          pos |-> pos + 1, ok |-> TRUE]
                    ELSE bad
          [] key = "Backspace" ->
                IF pos > 0
                THEN IF RopeRangeOk(text, pos - 1, pos)
                        /\ Transaction_move_backward_by_ok(t, 1)
                     THEN [text |-> RopeRemove(text, pos - 1, pos),
                           tx |-> Transaction_delete(
                                    Transaction_move_backward_by(t, 1), 1),
                           pos |-> pos - 1, ok |-> TRUE]
                     ELSE bad
                ELSE same
          [] key = "Left" ->
                IF pos > 0
                THEN IF Transaction_move_backward_by_ok(t, 1)
                     THEN [same EXCEPT !.tx = Transaction_move_backward_by(t, 1),
                                       !.pos = pos - 1]
                     ELSE bad
                ELSE same
          [] key = "Right" ->
                IF len_chars(text) = 0 THEN bad   \* len_chars() - 1 underflows
                ELSE IF pos < len_chars(text) - 1
                THEN [same EXCEPT !.tx = Transaction_move_forward_by(t, 1),
                                  !.pos = pos + 1]
                ELSE same

\* insert_mode_on_key(ctx, event); key is a character, "Enter",
\* "Backspace", "Left" or "Right"
insert_mode_on_key(b, d, key) ==
    LET e == InsertKeyEdit(d.text, d.tx_context.transaction, b.text_pos, key)
        u == Buffer_update_text_position(b, e.text, e.pos, Params_inserting_text)
        w == Document_with_transaction(d, Callback(e.text, e.tx, "Keep", TRUE))
    IN  IF b.mode = "Insert" /\ d.tx_context.some /\ e.ok /\ u.ok /\ w.ok
        THEN [buf |-> u.buf, doc |-> w.doc, ok |-> TRUE]
        ELSE Failed(b, d)

\* switch_to_normal_mode(ctx)
switch_to_normal_mode(b0, d) ==
    LET b == Buffer_switch_mode(b0, "Normal")
        u == Buffer_update_text_position(b, d.text, SatSub(b.text_pos, 1),
                Params(TRUE, TRUE, FALSE))
        a == Transaction_apply_repeats(d.tx_context.transaction, d.text)
        w == Document_with_transaction(d,
                Callback(a.rope, d.tx_context.transaction, "Commit", TRUE))
    IN  IF b0.mode # "Insert" THEN [buf |-> b, doc |-> d, ok |-> TRUE]
        ELSE IF u.ok /\ d.tx_context.some /\ a.ok /\ w.ok
        THEN [buf |-> u.buf, doc |-> w.doc, ok |-> TRUE]
        ELSE Failed(b0, d)

\* kill_line(ctx)
kill_line(b, d) ==
    LET line_start == b.line_char
        line_end == line_to_char(d.text, b.line_idx + 1)
        n == Document_new_transaction(d, b.text_pos)
        t0 == n.doc.tx_context.transaction
        t1 == Transaction_delete(Transaction_move_to(t0, line_start),
                                 line_end - line_start)
        a == Transaction_apply(t1, d.text)
        w == Document_with_transaction(n.doc, Callback(a.rope, t1, "Commit", TRUE))
    IN  IF /\ line_to_char_ok(d.text, b.line_idx + 1)
           /\ n.ok
           /\ Transaction_move_to_ok(t0, line_start)
           /\ line_end >= line_start
           /\ a.ok
           /\ w.ok
        THEN [buf |-> b, doc |-> w.doc, ok |-> TRUE]
        ELSE Failed(b, d)

\* the callback of kill_char returns Rollback on a line that is empty
KillCharRollsBack(b, d) ==
    LET first == get_char(line(d.text, b.line_idx), 0)
    IN  ~first.some \/ first.v = NL

\* kill_char(buf, doc)
kill_char(b, d) ==
    LET pos == b.text_pos
        n == Document_new_transaction(d, pos)
        t0 == n.doc.tx_context.transaction
        t1 == Transaction_delete(t0, 1)
        tmp == Transaction_apply(t1, d.text)
        u == Buffer_update_text_position(b, tmp.rope, pos, Params(TRUE, TRUE, FALSE))
        t2 == IF u.ret.some THEN Transaction_move_to(t1, u.ret.v) ELSE t1
        a == Transaction_apply(t2, d.text)
        w == Document_with_transaction(n.doc, Callback(a.rope, t2, "Commit", TRUE))
        r == Document_with_transaction(n.doc, Callback(d.text, t0, "Rollback", TRUE))
    IN  IF ~(n.ok /\ line_ok(d.text, b.line_idx)) THEN Failed(b, d)
        ELSE IF KillCharRollsBack(b, d)
        THEN [buf |-> b, doc |-> r.doc, ok |-> r.ok]
        ELSE IF /\ tmp.ok
                /\ u.ok
                /\ (u.ret.some => Transaction_move_to_ok(t1, u.ret.v))
                /\ a.ok
                /\ w.ok
        THEN [buf |-> u.buf, doc |-> w.doc, ok |-> TRUE]
        ELSE Failed(b, d)

\* kill(ctx) on a buffer with no selection
kill(b, d) == kill_char(b, d)

\* the body shared by the commands undo and redo: r is the outcome of
\* Document::undo / Document::redo
AfterHistory(b, d, r) ==
    LET u == Buffer_update_text_position(b, r.doc.text, r.ret.v, Params_inserting_text)
    IN  IF ~r.ok THEN Failed(b, d)
        ELSE IF ~r.ret.some THEN [buf |-> b, doc |-> r.doc, ok |-> TRUE]
        ELSE IF u.ok THEN [buf |-> u.buf, doc |-> r.doc, ok |-> TRUE]
        ELSE Failed(b, d)

\* undo(ctx)
undo(b, d) == AfterHistory(b, d, Document_undo(d))

\* redo(ctx)
redo(b, d) == AfterHistory(b, d, Document_redo(d))

-----------------------------------------------------------------------------
(* What a step records in last                                             *)

\* op: the command; leave: the directive its transaction callback returned
\* ("none" when it ran none, "panic" when the command aborted); ret: what
\* Document::undo / Document::redo returned; text_before: the live text
\* before the command; saved_text: the snapshot of the transaction the
\* command ended; changes_text: whether that transaction changed text
Last(op, leave, ret, text_before, saved_text, changes_text) ==
    [op |-> op, leave |-> leave, ret |-> ret, text_before |-> text_before,
     saved_text |-> saved_text, changes_text |-> changes_text]

NoLast == Last("none", "none", None, <<>>, <<>>, FALSE)

\* the editor is not part of the behaviour
EdIdle ==
    /\ doc = Document_new(<<>>)
    /\ buf = Buffer_new_text(0, Document_new(<<>>)).buf
    /\ panicked = FALSE
    /\ last = NoLast
    /\ cmds = 0
    /\ keys = 0

\* no SpanIterator is part of the behaviour
SpanIdle ==
    /\ iter = [done |-> TRUE, cursor |-> 0, selection_idx |-> 0, rope |-> <<>>,
               selections |-> <<>>]
    /\ spans = <<>>

\* Option<&Selection> of Buffer::selection()
NoSelection == [some |-> FALSE, anchor |-> 0, head |-> 0]

\* Editor::init(): no buffers yet; current is BufferId::MAX, written 0; ids
\* is the counter of BufferId::next()
Editor_init == [buffers |-> <<>>, current |-> 0, ids |-> 1]

\* no selection and no editor is part of the behaviour
SelIdle ==
    /\ sel = NoSelection
    /\ editor = Editor_init

\* no Transaction is being built outside the editor
TxIdle ==
    /\ tx_orig = <<>>
    /\ tx = Transaction_new(<<>>, 0)
    /\ tx_calls = 0

-----------------------------------------------------------------------------
(* SpecTx: a Transaction built on a text by calls of its public methods    *)

\* texts a Transaction is created on
TxTexts == { <<>>, <<"a", "b">>, <<"a", NL, "b", "c">> }

\* strings given to insert
TxStrings == { <<>>, <<"x">>, <<"x", "y">>, <<Eacute>> }

\* the calls stay inside the text: one pass of the transaction over T
\* touches no range outside the text and no changeset ends beyond it
TxInside(t, T) ==
    LET r == ApplyPasses(t, 1, [some |-> FALSE, v |-> 0],
                         [rope |-> T, pos |-> 0, ok |-> TRUE])
    IN  /\ r.ok
        /\ \A i \in 1..Len(t.changesets) :
              t.changesets[i].end_pos <= len_chars(r.rope)

InitTx ==
    /\ tx_orig \in TxTexts
    /\ \E pos \in 0..Len(tx_orig) : tx = Transaction_new(tx_orig, pos)
    /\ tx_calls = 0
    /\ EdIdle
    /\ SpanIdle
    /\ SelIdle

TxStep(t) ==
    /\ tx_calls < MaxCalls
    /\ TxInside(t, tx_orig)
    /\ tx' = t
    /\ tx_calls' = tx_calls + 1
    /\ UNCHANGED <<tx_orig, edvars, spanvars, selvars>>

TxInsert == \E s \in TxStrings : TxStep(Transaction_insert(tx, s))

TxInsertChar == \E c \in {"x", NL} : TxStep(Transaction_insert_char(tx, c))

TxDelete == \E len \in 0..2 : TxStep(Transaction_delete(tx, len))

TxMoveForwardBy == \E count \in 1..2 : TxStep(Transaction_move_forward_by(tx, count))

TxMoveBackwardBy ==
    \E count \in 1..2 :
        /\ Transaction_move_backward_by_ok(tx, count)
        /\ TxStep(Transaction_move_backward_by(tx, count))

TxMoveTo ==
    \E pos \in 0..Len(tx_orig) :
        /\ Transaction_move_to_ok(tx, pos)
        /\ TxStep(Transaction_move_to(tx, pos))

TxSetRepeat ==
    \E repeat \in 1..MaxRepeat :
        /\ Transaction_set_repeat_ok(repeat)
        /\ TxStep(Transaction_set_repeat(tx, repeat))

NextTx ==
    \/ TxInsert
    \/ TxInsertChar
    \/ TxDelete
    \/ TxMoveForwardBy
    \/ TxMoveBackwardBy
    \/ TxMoveTo
    \/ TxSetRepeat

SpecTx == InitTx /\ [][NextTx]_vars

-----------------------------------------------------------------------------
(* SpecMerge: a Transaction built by some calls and then by consecutive    *)
(* insert_char calls                                                       *)

\* the characters given to insert_char
MergeChars == {"x", NL, Eacute}

\* What the calls so far were.  base: the transaction before the first
\* insert_char call; chars: the characters of the insert_char calls made
\* since, none while other calls are still made
MergeLast(base, chars) == [base |-> base, chars |-> chars]

InitMerge ==
    /\ tx_orig \in TxTexts
    /\ \E pos \in 0..Len(tx_orig) :
            /\ tx = Transaction_new(tx_orig, pos)
            /\ last = MergeLast(Transaction_new(tx_orig, pos), <<>>)
    /\ tx_calls = 0
    /\ doc = Document_new(<<>>)
    /\ buf = Buffer_new_text(0, Document_new(<<>>)).buf
    /\ panicked = FALSE
    /\ cmds = 0
    /\ keys = 0
    /\ SpanIdle
    /\ SelIdle

\* a call made before the insert_char calls
MergeBase(t) ==
    /\ last.chars = <<>>
    /\ tx_calls < MaxCalls
    /\ TxInside(t, tx_orig)
    /\ tx' = t
    /\ last' = MergeLast(t, <<>>)
    /\ tx_calls' = tx_calls + 1
    /\ UNCHANGED <<tx_orig, doc, buf, panicked, cmds, keys, spanvars, selvars>>

MergeInsert == \E s \in TxStrings : MergeBase(Transaction_insert(tx, s))

MergeDelete == \E len \in 1..2 : MergeBase(Transaction_delete(tx, len))

MergeMoveForwardBy ==
    \E count \in 1..2 : MergeBase(Transaction_move_forward_by(tx, count))

MergeInsertChar ==
    \E c \in MergeChars :
        /\ tx_calls < MaxCalls
        /\ TxInside(Transaction_insert_char(tx, c), tx_orig)
        /\ tx' = Transaction_insert_char(tx, c)
        /\ last' = MergeLast(last.base, Append(last.chars, c))
        /\ tx_calls' = tx_calls + 1
        /\ UNCHANGED <<tx_orig, doc, buf, panicked, cmds, keys, spanvars, selvars>>

NextMerge ==
    \/ MergeInsert
    \/ MergeDelete
    \/ MergeMoveForwardBy
    \/ MergeInsertChar

SpecMerge == InitMerge /\ [][NextMerge]_vars

-----------------------------------------------------------------------------
(* Spec: one text buffer and its document, driven by the commands the      *)
(* keymaps of Normal and Insert mode dispatch (editor/keymap.rs,           *)
(* client/composer/widget/editor.rs)                                       *)

\* texts the document is loaded with
EdTexts == { <<>>, <<"a", "b">>, <<"a", NL, "b">>, <<"a", "b", NL>> }

\* keys typed in Insert mode
EdKeys == {"x", Eacute, "Enter", "Backspace", "Left", "Right"}

\* ctx.count
EdCounts == {None} \cup {Some(n) : n \in 2..MaxRepeat}

Init ==
    /\ \E text \in EdTexts :
        \E pos \in 0..SatSub(Len(text), 1) :
            /\ doc = Document_new(text)
            /\ buf = Buffer_new_text(pos, Document_new(text)).buf
    /\ panicked = FALSE
    /\ last = NoLast
    /\ cmds = 0
    /\ keys = 0
    /\ TxIdle
    /\ SpanIdle
    /\ SelIdle

\* a command runs to its end or aborts the process
Step(r, info) ==
    /\ ~panicked
    /\ IF info.op = "insert_mode_on_key"
       THEN keys < MaxKeys /\ keys' = keys + 1 /\ UNCHANGED cmds
       ELSE cmds < MaxCmds /\ cmds' = cmds + 1 /\ UNCHANGED keys
    /\ IF r.ok
       THEN doc' = r.doc /\ buf' = r.buf /\ panicked' = FALSE /\ last' = info
       ELSE /\ UNCHANGED <<doc, buf>>
            /\ panicked' = TRUE
            /\ last' = Last(info.op, "panic", None, doc.text, <<>>, FALSE)
    /\ UNCHANGED <<txvars, spanvars, selvars>>

SwitchToInsertMode ==
    /\ buf.mode = "Normal"
    /\ \E switch \in {"Inplace", "After", "LineStart", "LineEnd"}, count \in EdCounts :
        Step(switch_to_insert_mode_impl(buf, doc, switch, count),
             Last("switch_to_insert_mode", "Keep", None, doc.text, <<>>, FALSE))

InsertModeOnKey ==
    /\ buf.mode = "Insert"
    /\ \E key \in EdKeys :
        Step(insert_mode_on_key(buf, doc, key),
             Last("insert_mode_on_key", "Keep", None, doc.text, <<>>, FALSE))

SwitchToNormalMode ==
    /\ buf.mode = "Insert"
    /\ Step(switch_to_normal_mode(buf, doc),
            Last("switch_to_normal_mode", "Commit", None, doc.text,
                 doc.tx_context.saved_text,
                 Transaction_changes_text(doc.tx_context.transaction)))

Kill ==
    /\ buf.mode = "Normal"
    /\ Step(kill(buf, doc),
            IF KillCharRollsBack(buf, doc)
            THEN Last("kill", "Rollback", None, doc.text, doc.text, FALSE)
            ELSE Last("kill", "Commit", None, doc.text, doc.text, TRUE))

KillLine ==
    /\ buf.mode = "Normal"
    /\ Step(kill_line(buf, doc),
            Last("kill_line", "Commit", None, doc.text, doc.text,
                 Len(kill_line(buf, doc).doc.text) # Len(doc.text)))

Undo ==
    /\ buf.mode = "Normal"
    /\ Step(undo(buf, doc),
            Last("undo", "none", Document_undo(doc).ret, doc.text, <<>>, FALSE))

Redo ==
    /\ buf.mode = "Normal"
    /\ Step(redo(buf, doc),
            Last("redo", "none", Document_redo(doc).ret, doc.text, <<>>, FALSE))

Next ==
    \/ SwitchToInsertMode
    \/ InsertModeOnKey
    \/ SwitchToNormalMode
    \/ Kill
    \/ KillLine
    \/ Undo
    \/ Redo

Spec == Init /\ [][Next]_vars

-----------------------------------------------------------------------------
(* SpecSession: the commands of Spec on the current buffer, which is a     *)
(* text buffer or the logging buffer the application creates first         *)
(* (app.rs) and buffer_next / buffer_prev can make current.                *)

\* texts a text document is loaded with
SessionTexts == { <<>>, <<"a", "b">> }

\* what the log document holds: nothing, or a line appended by on_log
LogTexts == { <<>>, <<"a", NL>> }

InitSession ==
    /\ \/ \E text \in SessionTexts :
            \E pos \in 0..SatSub(Len(text), 1) :
                /\ doc = Document_new(text)
                /\ buf = Buffer_new_text(pos, Document_new(text)).buf
       \/ \E text \in LogTexts :
                /\ doc = Document_new(text)
                /\ buf = Buffer_new_logging(Document_new(<<>>)).buf
    /\ panicked = FALSE
    /\ last = NoLast
    /\ cmds = 0
    /\ keys = 0
    /\ TxIdle
    /\ SpanIdle
    /\ SelIdle

SpecSession == InitSession /\ [][Next]_vars

RECURSIVE SumWidths(_, _)
\* (0..char_idx).map(|i| line.char(i).width().unwrap_or(1)).sum()
SumWidths(ln, char_idx) ==
    IF char_idx = 0 THEN 0 ELSE SumWidths(ln, char_idx - 1) + width(ln[char_idx])

\* Document::column(line_idx, char_idx): [v, ok]; RopeSlice::char panics
\* when the index is not inside the line
Document_column(text, line_idx, char_idx) ==
    IF line_ok(text, line_idx) /\ char_idx >= 0
       /\ char_idx <= Len(line(text, line_idx))
    THEN [v |-> SumWidths(line(text, line_idx), char_idx), ok |-> TRUE]
    ELSE [v |-> 0, ok |-> FALSE]

-----------------------------------------------------------------------------
(* Movement commands (editor/command/movement.rs).  Each gives [buf, ok]   *)
(* for the buffer b, the text of the document and ctx.count.               *)

unwrap_or(count, default) == IF count.some THEN count.v ELSE default

\* move_left(ctx)
move_left(b, text, count) ==
    LET n == unwrap_or(count, 1)
        new_pos == nth_prev_grapheme_boundary(text, b.text_pos, n)
        u == Buffer_update_text_position(b, text, new_pos, Params(TRUE, TRUE, FALSE))
    IN  [buf |-> u.buf, ok |-> u.ok]

\* move_right(ctx)
move_right(b, text, count) ==
    IF ~line_ok(text, b.line_idx) THEN [buf |-> b, ok |-> FALSE]
    ELSE
    LET n == unwrap_or(count, 1)
        line_start == b.line_char
        ln == line(text, b.line_idx)
        new_pos == line_start
                   + nth_next_grapheme_boundary(ln, SatSub(b.text_pos, line_start), n)
        u == Buffer_update_text_position(b, text, new_pos, Params(TRUE, TRUE, FALSE))
    IN  [buf |-> u.buf, ok |-> u.ok]

\* GotoLine
Fixed(ln) == [kind |-> "Fixed", v |-> ln]
Offset(offset) == [kind |-> "Offset", v |-> offset]

\* to_line without the clamp to the last line
GotoLine_to_line_unclamped(goto_line, b, text) ==
    IF goto_line.kind = "Fixed" THEN goto_line.v
    ELSE Max(b.line_idx + goto_line.v, 0)

\* GotoLine::to_line(self, buf, doc)
GotoLine_to_line(goto_line, b, text) ==
    LET limit == SatSub(len_lines(text), 1)
    IN  IF goto_line.kind = "Fixed" THEN Min(goto_line.v, limit)
        ELSE Min(Max(b.line_idx + goto_line.v, 0), limit)

\* goto_line_impl that lets update_text_position save the column
goto_line_impl_saving(b, text, goto_line) ==
    LET goto_line_idx == GotoLine_to_line(goto_line, b, text)
        goto_line_start == line_to_char(text, goto_line_idx)
        goto_line_end == SatSub(line_to_char(text, goto_line_idx + 1), 1)
        new_pos == Max(Min(goto_line_start + b.saved_column, goto_line_end),
                       goto_line_start)
        u == Buffer_update_text_position(b, text, new_pos, Params(TRUE, FALSE, FALSE))
    IN  IF /\ line_to_char_ok(text, goto_line_idx)
           /\ line_to_char_ok(text, goto_line_idx + 1)
        THEN [buf |-> u.buf, ok |-> u.ok]
        ELSE [buf |-> b, ok |-> FALSE]

\* goto_line_impl(ctx, goto_line); Rope::line_to_char panics when the line
\* index is out of range
goto_line_impl(b, text, goto_line) ==
    LET goto_line_idx == GotoLine_to_line(goto_line, b, text)
        goto_line_start == line_to_char(text, goto_line_idx)
        goto_line_end == SatSub(line_to_char(text, goto_line_idx + 1), 1)
        new_pos == Max(Min(goto_line_start + b.saved_column, goto_line_end),
                       goto_line_start)
        u == Buffer_update_text_position(b, text, new_pos, Params(FALSE, FALSE, FALSE))
    IN  IF /\ line_to_char_ok(text, goto_line_idx)
           /\ line_to_char_ok(text, goto_line_idx + 1)
        THEN [buf |-> u.buf, ok |-> u.ok]
        ELSE [buf |-> b, ok |-> FALSE]

\* move_up(ctx)
move_up(b, text, count) == goto_line_impl(b, text, Offset(0 - unwrap_or(count, 1)))

\* move_down(ctx)
move_down(b, text, count) == goto_line_impl(b, text, Offset(unwrap_or(count, 1)))

\* count.and_then(|c| c.checked_sub(1))
CountLine(count) ==
    IF count.some /\ count.v >= 1 THEN Some(count.v - 1) ELSE None

\* goto_line_default_top(ctx)
goto_line_default_top(b, text, count) ==
    goto_line_impl(b, text, Fixed(unwrap_or(CountLine(count), 0)))

\* goto_line_default_bottom(ctx)
goto_line_default_bottom(b, text, count) ==
    goto_line_impl(b, text,
                   Fixed(unwrap_or(CountLine(count), SatSub(len_lines(text), 1))))

-----------------------------------------------------------------------------
(* SpecMove: a text buffer of a document whose cursor is moved by the      *)
(* movement commands and by calls of update_text_position                  *)

\* texts of the document
MoveTexts ==
    { <<>>, <<"a">>, <<NL>>, <<"a", "b", NL>>, <<"a", NL, "b">>, <<NL, NL>>,
      <<"a", "b", "c", NL, "d", NL, NL, "e", "f">>,
      <<"a", "b", "c", NL, NL, "d", "e", NL>>,
      <<Wide, "a", NL, "b">> }

\* commands run on the buffer
MaxMoves == 2
\* largest count typed before a command
MaxCount == 3

\* ctx.count
MoveCounts == {None} \cup {Some(n) : n \in 0..MaxCount}

\* What a command records in last: its name, its count, and for a call of
\* update_text_position its target, parameters and return value
MoveLast(op, count, pos, params, ret) ==
    [op |-> op, count |-> count, pos |-> pos, params |-> params, ret |-> ret]

InitMove ==
    /\ \E text \in MoveTexts :
        \E pos \in 0..SatSub(Len(text), 1) :
            /\ doc = Document_new(text)
            /\ buf = Buffer_new_text(pos, Document_new(text)).buf
            /\ last = MoveLast("new_text", None, pos, Params_default, None)
    /\ panicked = FALSE
    /\ cmds = 0
    /\ keys = 0
    /\ TxIdle
    /\ SpanIdle
    /\ SelIdle

MoveStep(r, op, count) ==
    /\ buf' = r.buf
    /\ panicked' = ~r.ok
    /\ last' = MoveLast(op, count, 0, Params_default, None)
    /\ cmds' = cmds + 1
    /\ UNCHANGED <<doc, keys, txvars, spanvars, selvars>>

MoveLeft ==
    /\ ~panicked /\ cmds < MaxMoves
    /\ \E count \in MoveCounts :
        MoveStep(move_left(buf, doc.text, count), "move_left", count)

MoveRight ==
    /\ ~panicked /\ cmds < MaxMoves
    /\ \E count \in MoveCounts :
        MoveStep(move_right(buf, doc.text, count), "move_right", count)

MoveUp ==
    /\ ~panicked /\ cmds < MaxMoves
    /\ \E count \in MoveCounts :
        MoveStep(move_up(buf, doc.text, count), "move_up", count)

MoveDown ==
    /\ ~panicked /\ cmds < MaxMoves
    /\ \E count \in MoveCounts :
        MoveStep(move_down(buf, doc.text, count), "move_down", count)

GotoLineDefaultTop ==
    /\ ~panicked /\ cmds < MaxMoves
    /\ \E count \in MoveCounts :
        MoveStep(goto_line_default_top(buf, doc.text, count),
                 "goto_line_default_top", count)

GotoLineDefaultBottom ==
    /\ ~panicked /\ cmds < MaxMoves
    /\ \E count \in MoveCounts :
        MoveStep(goto_line_default_bottom(buf, doc.text, count),
                 "goto_line_default_bottom", count)

\* a direct call of Buffer::update_text_position, with any parameters
MoveUpdateTextPosition ==
    /\ ~panicked /\ cmds < MaxMoves
    /\ \E pos \in 0..len_chars(doc.text) + 1,
          update_saved_column \in BOOLEAN, line_keep \in BOOLEAN,
          allow_on_newline \in BOOLEAN :
            LET params == Params(update_saved_column, line_keep, allow_on_newline)
                r == Buffer_update_text_position(buf, doc.text, pos, params)
            IN  /\ buf' = r.buf
                /\ panicked' = ~r.ok
                /\ last' = MoveLast("update_text_position", None, pos, params, r.ret)
    /\ cmds' = cmds + 1
    /\ UNCHANGED <<doc, keys, txvars, spanvars, selvars>>

NextMove ==
    \/ MoveLeft
    \/ MoveRight
    \/ MoveUp
    \/ MoveDown
    \/ GotoLineDefaultTop
    \/ GotoLineDefaultBottom
    \/ MoveUpdateTextPosition

SpecMove == InitMove /\ [][NextMove]_vars

-----------------------------------------------------------------------------
(* SpecBuf: a text buffer created on a document and moved by calls of      *)
(* update_text_position, with every combination of its parameters          *)

\* texts of the document
BufTexts ==
    { <<>>, <<"a">>, <<NL>>, <<"a", "b">>, <<"a", NL>>, <<NL, "a">>,
      <<"a", "b", NL>>, <<"a", NL, "b">>, <<NL, NL>>, <<"a", NL, NL, "b">>,
      <<"a", "b", NL, "c", "d", NL>> }

\* calls of update_text_position made on the buffer
MaxBufCalls == 3

\* What a call records in last: the target position and the parameters it
\* was given, and what it returned
BufLast(op, pos, params, ret) ==
    [op |-> op, pos |-> pos, params |-> params, ret |-> ret]

InitBuf ==
    /\ \E text \in BufTexts :
        \E pos \in 0..SatSub(Len(text), 1) :
            /\ doc = Document_new(text)
            /\ buf = Buffer_new_text(pos, Document_new(text)).buf
            /\ last = BufLast("new_text", pos, Params_default, None)
    /\ panicked = FALSE
    /\ cmds = 0
    /\ keys = 0
    /\ TxIdle
    /\ SpanIdle
    /\ SelIdle

BufUpdateTextPosition ==
    /\ ~panicked
    /\ cmds < MaxBufCalls
    /\ \E pos \in 0..len_chars(doc.text) + 1,
          update_saved_column \in BOOLEAN, line_keep \in BOOLEAN,
          allow_on_newline \in BOOLEAN :
            LET params == Params(update_saved_column, line_keep, allow_on_newline)
                r == Buffer_update_text_position(buf, doc.text, pos, params)
            IN  /\ buf' = r.buf
                /\ panicked' = ~r.ok
                /\ last' = BufLast("update_text_position", pos, params, r.ret)
    /\ cmds' = cmds + 1
    /\ UNCHANGED <<doc, keys, txvars, spanvars, selvars>>

NextBuf == BufUpdateTextPosition

SpecBuf == InitBuf /\ [][NextBuf]_vars

-----------------------------------------------------------------------------
(* SpecDoc: a Document driven through open_transaction, with_transaction,  *)
(* with_new_transaction, undo and redo.  The callbacks edit the text at    *)
(* the position of the transaction, as the callback of insert_mode_on_key  *)
(* does, and return any TransactionLeave.                                  *)

\* texts the document is loaded with
DocTexts == { <<>>, <<"a", "b">> }

\* what a callback does: nothing, or the edit of one Insert-mode key
DocKeys == {"none", "x", "Backspace", "Right"}

\* TransactionLeave
DocLeaves == {"Keep", "Commit", "Rollback"}

\* calls made on the document
MaxDocCalls == 4

\* the outcome of a callback that makes the edit of key and returns leave
DocCallback(d, key, leave) ==
    LET t == d.tx_context.transaction
        e == InsertKeyEdit(d.text, t, changeset_head(t).end_pos, key)
    IN  IF key = "none" THEN Callback(d.text, t, leave, TRUE)
        ELSE Callback(e.text, e.tx, leave, e.ok)

\* Document::with_new_transaction(pos, callback): [doc, ok]
Document_with_new_transaction(d, pos, key, leave) ==
    LET n == Document_new_transaction(d, pos)
    IN  IF n.ok
        THEN Document_with_transaction(n.doc, DocCallback(n.doc, key, leave))
        ELSE [doc |-> d, ok |-> FALSE]

\* What a call records in last.  op: the method; key, leave: what its
\* callback did and returned; ret: what undo / redo returned; transaction:
\* the transaction as the callback left it; history_before, text_before:
\* the history and the live text before the call; opened: the live text
\* when the transaction the call worked on was opened; cycles: the calls
\* that have left that transaction open with Keep
DocLast(op, key, leave, ret, transaction, history_before, text_before, opened, cycles) ==
    [op |-> op, key |-> key, leave |-> leave, ret |-> ret,
     transaction |-> transaction, history_before |-> history_before,
     text_before |-> text_before, opened |-> opened, cycles |-> cycles]

InitDoc ==
    /\ \E text \in DocTexts : doc = Document_new(text)
    /\ buf = Buffer_new_text(0, Document_new(<<>>)).buf
    /\ panicked = FALSE
    /\ last = DocLast("none", "none", "none", None, Transaction_new(<<>>, 0),
                      History_default, <<>>, <<>>, 0)
    /\ cmds = 0
    /\ keys = 0
    /\ TxIdle
    /\ SpanIdle
    /\ SelIdle

\* a call returns or aborts the process
DocStep(r, info) ==
    /\ ~panicked
    /\ cmds < MaxDocCalls
    /\ cmds' = cmds + 1
    /\ IF r.ok
       THEN doc' = r.doc /\ panicked' = FALSE /\ last' = info
       ELSE /\ UNCHANGED doc
            /\ panicked' = TRUE
            /\ last' = [last EXCEPT !.op = info.op, !.leave = "panic"]
    /\ UNCHANGED <<buf, keys, txvars, spanvars, selvars>>

DocOpenTransaction ==
    \E pos \in 0..len_chars(doc.text) :
        LET r == Document_open_transaction(doc, pos)
        IN  DocStep(r,
                DocLast("open_transaction", "none", "none", None,
                        r.doc.tx_context.transaction, doc.history, doc.text,
                        IF doc.tx_context.some THEN last.opened ELSE doc.text,
                        IF doc.tx_context.some THEN last.cycles ELSE 0))

DocWithTransaction ==
    \E key \in DocKeys, leave \in DocLeaves :
        LET cb == DocCallback(doc, key, leave)
        IN  DocStep(Document_with_transaction(doc, cb),
                DocLast("with_transaction", key, leave, None, cb.transaction,
                        doc.history, doc.text, last.opened,
                        IF leave = "Keep" THEN last.cycles + 1 ELSE last.cycles))

DocWithNewTransaction ==
    \E pos \in 0..len_chars(doc.text), key \in DocKeys, leave \in DocLeaves :
        LET n == Document_new_transaction(doc, pos)
            cb == DocCallback(n.doc, key, leave)
        IN  DocStep(Document_with_new_transaction(doc, pos, key, leave),
                DocLast("with_new_transaction", key, leave, None,
                        cb.transaction, doc.history, doc.text, doc.text,
                        IF leave = "Keep" THEN 1 ELSE 0))

DocUndo ==
    LET r == Document_undo(doc)
    IN  DocStep(r,
            DocLast("undo", "none", "none", r.ret, doc.tx_context.transaction,
                    doc.history, doc.text,
                    IF doc.tx_context.some THEN last.opened ELSE <<>>,
                    IF doc.tx_context.some THEN last.cycles ELSE 0))

DocRedo ==
    LET r == Document_redo(doc)
    IN  DocStep(r,
            DocLast("redo", "none", "none", r.ret, doc.tx_context.transaction,
                    doc.history, doc.text,
                    IF doc.tx_context.some THEN last.opened ELSE <<>>,
                    IF doc.tx_context.some THEN last.cycles ELSE 0))

NextDoc ==
    \/ DocOpenTransaction
    \/ DocWithTransaction
    \/ DocWithNewTransaction
    \/ DocUndo
    \/ DocRedo

SpecDoc == InitDoc /\ [][NextDoc]_vars

-----------------------------------------------------------------------------
(* SpecAttach: the mutation entry calls of a Document.  The older          *)
(* snapshot has one entry, with_transaction(attach, pos, action), that     *)
(* takes a TransactionAttachPolicy; the newer one has with_transaction     *)
(* and with_new_transaction.  A behaviour uses the entries of one          *)
(* snapshot.  Both are expressed over the Transaction of the newer         *)
(* snapshot: a fresh transaction moved forward by pos is                   *)
(* Transaction_new(text, pos).                                             *)

\* TransactionAttachPolicy
AttachPolicies == {"RequireTransactionAlive", "Allow", "Disallow"}

\* what a callback of SpecAttach does: nothing, or insert a character
AttachKeys == {"none", "x"}

\* entry calls made on the document
MaxAttachCalls == 3

\* the two generations of the entry calls
AttachApis == {"attach", "leave"}

\* the assertions of the policy
AttachAsserts(attach, active) ==
    CASE attach = "RequireTransactionAlive" -> active
      [] attach = "Disallow" -> ~active
      [] OTHER -> TRUE

\* the policy entry without its assertions
Document_with_transaction_attach_unchecked(d, attach, pos, key, leave) ==
    LET ctx == IF d.tx_context.some THEN d.tx_context
               ELSE SomeContext(Transaction_new(d.text, pos), d.text)
        cb == DocCallback([d EXCEPT !.tx_context = ctx], key, leave)
        c == History_create_commit(d.history, ctx.saved_text, cb.transaction)
    IN  IF ~cb.ok
        THEN [doc |-> d, ok |-> FALSE, ran |-> TRUE,
              transaction |-> ctx.transaction]
        ELSE IF leave = "Commit"
        THEN [doc |-> [text |-> cb.text, tx_context |-> NoContext,
                       history |-> c.history],
              ok |-> c.ok, ran |-> TRUE, transaction |-> ctx.transaction]
        ELSE IF leave = "Keep"
        THEN [doc |-> [text |-> cb.text,
                       tx_context |-> SomeContext(cb.transaction,
                                                  ctx.saved_text),
                       history |-> d.history],
              ok |-> TRUE, ran |-> TRUE, transaction |-> ctx.transaction]
        ELSE [doc |-> [text |-> cb.text, tx_context |-> NoContext,
                       history |-> d.history],
              ok |-> TRUE, ran |-> TRUE, transaction |-> ctx.transaction]

\* Document::with_transaction(attach, pos, action) of the older snapshot:
\* [doc, ok, ran, transaction], ran: the callback was called, transaction:
\* the transaction it was (or would have been) given.  Its Rollback arm
\* leaves the text as the callback left it.
Document_with_transaction_attach(d, attach, pos, key, leave) ==
    LET ctx == IF d.tx_context.some THEN d.tx_context
               ELSE SomeContext(Transaction_new(d.text, pos), d.text)
        cb == DocCallback([d EXCEPT !.tx_context = ctx], key, leave)
        c == History_create_commit(d.history, ctx.saved_text, cb.transaction)
    IN  IF ~AttachAsserts(attach, d.tx_context.some)
        THEN [doc |-> d, ok |-> FALSE, ran |-> FALSE,
              transaction |-> ctx.transaction]
        ELSE IF ~cb.ok
        THEN [doc |-> d, ok |-> FALSE, ran |-> TRUE,
              transaction |-> ctx.transaction]
        ELSE IF leave = "Commit"
        THEN [doc |-> [text |-> cb.text, tx_context |-> NoContext,
                       history |-> c.history],
              ok |-> c.ok, ran |-> TRUE, transaction |-> ctx.transaction]
        ELSE IF leave = "Keep"
        THEN [doc |-> [text |-> cb.text,
                       tx_context |-> SomeContext(cb.transaction,
                                                  ctx.saved_text),
                       history |-> d.history],
              ok |-> TRUE, ran |-> TRUE, transaction |-> ctx.transaction]
        ELSE [doc |-> [text |-> cb.text, tx_context |-> NoContext,
                       history |-> d.history],
              ok |-> TRUE, ran |-> TRUE, transaction |-> ctx.transaction]

\* What an entry call records in last.  api: the snapshot whose entries the
\* behaviour uses; op: the entry; policy: its attach policy; leave: what
\* the callback returns; ran: the callback was called; transaction: the
\* transaction the callback is given; before: tx_context before the call
AttachLast(api, op, policy, leave, ran, transaction, before) ==
    [api |-> api, op |-> op, policy |-> policy, leave |-> leave, ran |-> ran,
     transaction |-> transaction, before |-> before]

InitAttach ==
    /\ \E text \in DocTexts : doc = Document_new(text)
    /\ buf = Buffer_new_text(0, Document_new(<<>>)).buf
    /\ panicked = FALSE
    /\ \E api \in AttachApis :
            last = AttachLast(api, "none", "none", "none", FALSE,
                              Transaction_new(<<>>, 0), NoContext)
    /\ cmds = 0
    /\ keys = 0
    /\ TxIdle
    /\ SpanIdle
    /\ SelIdle

\* an entry call returns or aborts the process
AttachStep(r, info) ==
    /\ ~panicked
    /\ cmds < MaxAttachCalls
    /\ cmds' = cmds + 1
    /\ doc' = IF r.ok THEN r.doc ELSE doc
    /\ panicked' = ~r.ok
    /\ last' = info
    /\ UNCHANGED <<buf, keys, txvars, spanvars, selvars>>

AttachWithTransaction ==
    /\ last.api = "attach"
    /\ \E attach \in AttachPolicies, pos \in 0..len_chars(doc.text),
          key \in AttachKeys, leave \in DocLeaves :
            LET r == Document_with_transaction_attach(doc, attach, pos, key,
                                                      leave)
            IN  AttachStep(r, AttachLast("attach", "with_transaction", attach,
                                         leave, r.ran, r.transaction,
                                         doc.tx_context))

LeaveWithTransaction ==
    /\ last.api = "leave"
    /\ \E key \in AttachKeys, leave \in DocLeaves :
            AttachStep(Document_with_transaction(doc,
                                                 DocCallback(doc, key, leave)),
                       AttachLast("leave", "with_transaction", "none", leave,
                                  doc.tx_context.some,
                                  doc.tx_context.transaction, doc.tx_context))

LeaveWithNewTransaction ==
    /\ last.api = "leave"
    /\ \E pos \in 0..len_chars(doc.text), key \in AttachKeys,
          leave \in DocLeaves :
            AttachStep(Document_with_new_transaction(doc, pos, key, leave),
                       AttachLast("leave", "with_new_transaction", "none",
                                  leave, ~doc.tx_context.some,
                                  Transaction_new(doc.text, pos),
                                  doc.tx_context))

NextAttach ==
    \/ AttachWithTransaction
    \/ LeaveWithTransaction
    \/ LeaveWithNewTransaction

SpecAttach == InitAttach /\ [][NextAttach]_vars

-----------------------------------------------------------------------------
(* Properties of a Transaction and its inverse, under SpecTx               *)

\* C1: undo round trip.  For a transaction tx built on a text T by calls
\* of insert, insert_char, delete, move_forward_by, move_backward_by and
\* move_to that stay inside the text (repeat left at 1): when applying tx
\* to T gives T', then tx.undo(T) is built without aborting and applying
\* it to T' gives exactly T again.
C1_UndoRoundTrip ==
    LET applied == Transaction_apply(tx, tx_orig)
        inverse == Transaction_undo(tx, tx_orig)
        back == Transaction_apply(inverse.tx, applied.rope)
    IN  (tx.repeat = 1 /\ applied.ok) =>
            (inverse.ok /\ back.ok /\ back.rope = tx_orig)

\* s repeated n times
RECURSIVE Repeated(_, _)
Repeated(s, n) == IF n = 0 THEN <<>> ELSE s \o Repeated(s, n - 1)

\* tx is insert(s) on a new transaction at the start of a text, with any
\* repeat
OneInsert(t) ==
    /\ Len(t.changesets) = 1
    /\ t.changesets[1].start_pos = 0
    /\ Len(t.changesets[1].changes) = 1
    /\ t.changesets[1].changes[1].kind = "Insert"

\* C13: repeat semantics.  For every n >= 1 and non-empty string s, the
\* transaction insert(s) with set_repeat(n), applied to the empty text,
\* yields s repeated n times, and applying its undo (computed against the
\* empty text) afterwards yields the empty text again.
C13_RepeatInsert ==
    LET s == tx.changesets[1].changes[1].content
        applied == Transaction_apply(tx, tx_orig)
        inverse == Transaction_undo(tx, tx_orig)
        back == Transaction_apply(inverse.tx, applied.rope)
    IN  (tx_orig = <<>> /\ OneInsert(tx)) =>
            /\ applied.ok
            /\ applied.rope = Repeated(s, tx.repeat)
            /\ inverse.ok
            /\ back.ok
            /\ back.rope = <<>>

\* C13 for strings of one-byte characters
C13_RepeatInsertAscii ==
    LET s == tx.changesets[1].changes[1].content
        applied == Transaction_apply(tx, tx_orig)
        inverse == Transaction_undo(tx, tx_orig)
        back == Transaction_apply(inverse.tx, applied.rope)
    IN  (tx_orig = <<>> /\ OneInsert(tx) /\ StrByteLen(s) = StrCharLen(s)) =>
            /\ applied.ok
            /\ applied.rope = Repeated(s, tx.repeat)
            /\ inverse.ok
            /\ back.ok
            /\ back.rope = <<>>

\* tx is insert(s) on a new transaction at any position
InsertAt(t) ==
    /\ Len(t.changesets) = 1
    /\ Len(t.changesets[1].changes) = 1
    /\ t.changesets[1].changes[1].kind = "Insert"

\* the values of repeat the properties of apply are evaluated with
MaxPasses == 3

\* insert(s) at p applied with repeat n lays n copies of s at p and
\* returns p + n * m
RepeatLaysCopies(t, rope, n) ==
    LET p == t.changesets[1].start_pos
        s == t.changesets[1].changes[1].content
        applied == Transaction_apply(Transaction_set_repeat(t, n), rope)
    IN  /\ applied.ok
        /\ applied.rope = RopeInsert(rope, p, Repeated(s, n))
        /\ applied.pos = p + n * StrCharLen(s)

\* C14: apply with repeat n >= 2 starts every pass after the first where
\* the pass before it ended and returns the position after the last pass:
\* for insert(s) at position p with |s| = m characters the n copies of s
\* lie one after another at p and the returned position is p + n * m.
C14_RepeatPosition ==
    InsertAt(tx) =>
        \A n \in 2..MaxPasses : RepeatLaysCopies(tx, tx_orig, n)

\* C14 for strings of one-byte characters
C14_RepeatPositionAscii ==
    LET s == tx.changesets[1].changes[1].content
    IN  (InsertAt(tx) /\ StrByteLen(s) = StrCharLen(s)) =>
            \A n \in 2..MaxPasses : RepeatLaysCopies(tx, tx_orig, n)

\* C14 for strings of one-byte characters and two passes
C14_RepeatPositionTwice ==
    LET s == tx.changesets[1].changes[1].content
    IN  (InsertAt(tx) /\ StrByteLen(s) = StrCharLen(s)) =>
            RepeatLaysCopies(tx, tx_orig, 2)

\* C15: apply_repeats makes repeat - 1 passes.  For every transaction, on
\* the text where its edits have been made once (live) apply_repeats
\* yields the text that apply, with all its passes, yields on the text
\* before the edits; with repeat 1 apply_repeats leaves the text as it is.
C15_ApplyRepeatsAsApply ==
    LET live == Transaction_apply(Transaction_set_repeat(tx, 1), tx_orig)
        full == Transaction_apply(tx, tx_orig)
        rest == Transaction_apply_repeats(tx, live.rope)
    IN  (live.ok /\ full.ok) =>
            /\ rest.ok
            /\ rest.rope = full.rope
            /\ tx.repeat = 1 => rest.rope = live.rope

\* every string the transaction inserts is of one-byte characters
OneByteStrings(t) ==
    \A i \in 1..Len(t.changesets) :
        \A j \in 1..Len(t.changesets[i].changes) :
            LET c == t.changesets[i].changes[j]
            IN  StrByteLen(c.content) = StrCharLen(c.content)

\* C15 for transactions whose strings are of one-byte characters
C15_ApplyRepeatsAscii ==
    LET live == Transaction_apply(Transaction_set_repeat(tx, 1), tx_orig)
        full == Transaction_apply(tx, tx_orig)
        rest == Transaction_apply_repeats(tx, live.rope)
    IN  (live.ok /\ full.ok /\ OneByteStrings(tx)) =>
            /\ rest.ok
            /\ rest.rope = full.rope
            /\ tx.repeat = 1 => rest.rope = live.rope

\* C15 for transactions that are one insert of one-byte characters
C15_ApplyRepeatsOfInserts ==
    LET live == Transaction_apply(Transaction_set_repeat(tx, 1), tx_orig)
        full == Transaction_apply(tx, tx_orig)
        rest == Transaction_apply_repeats(tx, live.rope)
    IN  (live.ok /\ full.ok /\ InsertAt(tx) /\ OneByteStrings(tx)) =>
            /\ rest.ok
            /\ rest.rope = full.rope
            /\ tx.repeat = 1 => rest.rope = live.rope

\* C18: insert of an empty string and delete of length 0 are silent
\* no-ops: they leave the whole Transaction unchanged (the list of
\* changes, start_pos, end_pos, len_after, changes_text()).
C18_EmptyEditsAreNoops ==
    /\ Transaction_insert(tx, <<>>) = tx
    /\ Transaction_delete(tx, 0) = tx
    /\ Transaction_changes_text(Transaction_insert(tx, <<>>))
            = Transaction_changes_text(tx)
    /\ Transaction_changes_text(Transaction_delete(tx, 0))
            = Transaction_changes_text(tx)

\* a call more than the changes account for has been made on a
\* transaction of the empty text whose last change is an Insert
C18_Witness ==
    /\ tx_orig = <<>>
    /\ tx_calls = 2
    /\ tx.repeat = 1
    /\ tx.changesets = <<[start_pos |-> 0, end_pos |-> 2,
                          changes |-> <<Insert(<<"x", "y">>)>>]>>

-----------------------------------------------------------------------------
(* Properties of merged inserts, under SpecMerge                           *)

\* C17: merge of consecutive inserts.  Issuing insert_char(c1), ..,
\* insert_char(cN) on a transaction is observably equivalent to issuing
\* one insert of the string c1..cN: applied to the same text the two
\* transactions give the same text and return the same cursor position.
C17_InsertCharsAsInsert ==
    LET chars == Transaction_apply(tx, tx_orig)
        string == Transaction_apply(Transaction_insert(last.base, last.chars),
                                    tx_orig)
    IN  last.chars # <<>> =>
            /\ chars.ok = string.ok
            /\ chars.ok => (chars.rope = string.rope /\ chars.pos = string.pos)

\* three insert_char calls of different characters, made on a transaction
\* whose last change is an Insert
C17_Witness ==
    /\ Len(last.chars) = 3
    /\ last.chars[1] # last.chars[2]
    /\ last.chars[2] # last.chars[3]
    /\ LastKind(changeset_head(last.base).changes) = "Insert"
    /\ Transaction_apply(tx, tx_orig).ok

-----------------------------------------------------------------------------
(* Properties of undo and redo in the editor, under Spec                   *)

\* C2: the first undo after a commit restores the snapshot.  When a
\* command has committed a text-changing transaction (kill, kill_line, or
\* leaving Insert mode after any keys) and the next command is undo, the
\* undo runs to its end and the live text equals the saved_text the
\* committed transaction was opened with.
C2_UndoRestoresSavedText ==
    [][(~panicked /\ last.leave = "Commit" /\ last.changes_text
            /\ last'.op = "undo")
        => (~panicked' /\ doc'.text = last.saved_text)]_vars

\* C3: undo immediately followed by redo restores the text.  When undo
\* has applied a commit's inversion and the next command is redo, the
\* live text is again what it was before the undo; and at every commit of
\* a text-changing transaction, the committed forward transaction applied
\* to the pre-edit saved_text gives the text that is live at the commit.
C3_UndoRedoRestores ==
    [][/\ (~panicked /\ last.op = "undo" /\ last.ret.some /\ last'.op = "redo")
            => (~panicked' /\ doc'.text = last.text_before)
       /\ (~panicked' /\ last'.leave = "Commit" /\ last'.changes_text)
            => LET c == doc'.history.commits[doc'.history.head]
                   a == Transaction_apply(c.transaction, last'.saved_text)
               IN  a.ok /\ a.rope = doc'.text]_vars

-----------------------------------------------------------------------------
(* Properties of Document and History, under SpecDoc                       *)

\* the call that has just returned was a callback leaving with leave
Returned(leave) ==
    /\ ~panicked
    /\ last.op \in {"with_transaction", "with_new_transaction"}
    /\ last.leave = leave

\* the changes of all changesets of t are of the kinds in kinds
OnlyKinds(t, kinds) ==
    \A i \in 1..Len(t.changesets) :
        \A j \in 1..Len(t.changesets[i].changes) :
            t.changesets[i].changes[j].kind \in kinds

\* t holds an Insert or a Delete
HasEdit(t) == ~OnlyKinds(t, {"MoveForward"})

\* commits were ahead of head before the call
HadRedo == last.history_before.head < Len(last.history_before.commits)

\* C4: history truncation.  Right after a text-changing transaction is
\* committed, commits.len() == head, the commits up to the old head are
\* kept and those ahead of it are gone, and History::redo() returns none;
\* in particular after an undo that had left commits ahead of head.
C4_CommitTruncatesRedo ==
    (Returned("Commit") /\ HasEdit(last.transaction)) =>
        /\ Len(doc.history.commits) = doc.history.head
        /\ doc.history.head = last.history_before.head + 1
        /\ SubSeq(doc.history.commits, 1, last.history_before.head)
             = SubSeq(last.history_before.commits, 1, last.history_before.head)
        /\ ~History_redo(doc.history).ret.some

\* a text-changing commit has discarded a commit that undo had left ahead
C4_Witness ==
    /\ Returned("Commit")
    /\ HasEdit(last.transaction)
    /\ HadRedo

\* C5: after any sequence of commits, undo and redo,
\* 0 <= head <= commits.len().
C5_HeadInRange ==
    /\ 0 <= doc.history.head
    /\ doc.history.head <= Len(doc.history.commits)

\* redo at the end of a history that holds commits
C5_Witness ==
    /\ ~panicked
    /\ last.op = "redo"
    /\ ~last.ret.some
    /\ doc.history.head = Len(doc.history.commits)
    /\ doc.history.head > 0

\* C6: Rollback.  When the callback returns Rollback the live text is the
\* text the transaction was opened on, whatever this callback and the
\* callbacks of earlier Keep cycles did to it; commits and head are as
\* before the call; no transaction is open.
C6_RollbackRestores ==
    Returned("Rollback") =>
        /\ doc.text = last.opened
        /\ doc.history = last.history_before
        /\ ~Document_transaction_active(doc)

\* a callback edits the text and rolls back a transaction that earlier
\* Keep cycles had edited, in a document that has a commit
C6_Witness ==
    /\ Returned("Rollback")
    /\ last.cycles >= 1
    /\ last.key = "x"
    /\ last.text_before # last.opened
    /\ Len(doc.history.commits) >= 1

\* C7: one commit per transaction.  A call that leaves with Keep changes
\* neither commits nor head; the call that leaves with Commit adds the
\* transaction, with the changes of all cycles, as one commit at the new
\* head and moves head by one when it holds an Insert or a Delete, and
\* changes nothing of the history otherwise; so one History::undo() is
\* back at the head the commit started from.
C7_OneCommitPerTransaction ==
    /\ Returned("Keep") => doc.history = last.history_before
    /\ (Returned("Commit") /\ ~HasEdit(last.transaction)) =>
            doc.history = last.history_before
    /\ (Returned("Commit") /\ HasEdit(last.transaction)) =>
            /\ doc.history.head = last.history_before.head + 1
            /\ Len(doc.history.commits) = last.history_before.head + 1
            /\ doc.history.commits[doc.history.head].transaction = last.transaction
            /\ History_undo(doc.history).history.head = last.history_before.head

\* a text-changing transaction is committed after two Keep cycles
C7_Witness ==
    /\ Returned("Commit")
    /\ last.op = "with_transaction"
    /\ last.cycles >= 2
    /\ HasEdit(last.transaction)
    /\ Len(last.transaction.changesets) >= 1
    /\ doc.text # last.opened

\* C8: while a transaction is open, saved_text is the live text of the
\* moment it was opened, after any open_transaction call, Keep cycle,
\* undo, redo and edit of the live text.
C8_SavedTextFixed ==
    Document_transaction_active(doc) => doc.tx_context.saved_text = last.opened

\* open_transaction is called on a transaction that Keep cycles have left
\* open and whose edits have changed the live text
C8_Witness ==
    /\ ~panicked
    /\ Document_transaction_active(doc)
    /\ last.op = "open_transaction"
    /\ last.cycles >= 1
    /\ doc.text # doc.tx_context.saved_text

\* C9: committing a transaction with no Insert and no Delete (cursor moves
\* only, or nothing) leaves commits and head as they were, the commits
\* ahead of head included.
C9_MoveOnlyCommitIsNoop ==
    (Returned("Commit") /\ OnlyKinds(last.transaction, {"MoveForward"})) =>
        doc.history = last.history_before

\* a transaction that holds a cursor move and nothing else is committed
\* while a commit is ahead of head
C9_Witness ==
    /\ Returned("Commit")
    /\ OnlyKinds(last.transaction, {"MoveForward"})
    /\ \E i \in 1..Len(last.transaction.changesets) :
            last.transaction.changesets[i].changes # <<>>
    /\ HadRedo
    /\ doc.history.head < Len(doc.history.commits)

\* C10: the ends of history.  With head == 0, History::undo() returns none
\* and leaves head and commits; with head == commits.len(),
\* History::redo() does; and a Document::undo() / redo() called there has
\* returned none and left the live text and the history as they were.
C10_EndsOfHistory ==
    /\ doc.history.head = 0 =>
            /\ ~History_undo(doc.history).ret.some
            /\ History_undo(doc.history).history = doc.history
    /\ doc.history.head = Len(doc.history.commits) =>
            /\ ~History_redo(doc.history).ret.some
            /\ History_redo(doc.history).history = doc.history
    /\ (~panicked /\ last.op = "undo" /\ last.history_before.head = 0) =>
            /\ ~last.ret.some
            /\ doc.text = last.text_before
            /\ doc.history = last.history_before
    /\ (~panicked /\ last.op = "redo" /\ ~HadRedo) =>
            /\ ~last.ret.some
            /\ doc.text = last.text_before
            /\ doc.history = last.history_before

\* undo is called at head == 0 on a history that holds a commit
C10_Witness ==
    /\ ~panicked
    /\ last.op = "undo"
    /\ last.history_before.head = 0
    /\ Len(last.history_before.commits) >= 1
    /\ ~last.ret.some

\* C11: undo then redo on a History.  For every history with head >= 1,
\* undo() returns the inversion of the commit at index head - 1 and
\* redo() right after it returns the forward transaction of that same
\* commit and puts head back; neither call modifies commits.
C11_UndoRedoInverse ==
    LET h == doc.history
        u == History_undo(h)
        r == History_redo(u.history)
    IN  h.head >= 1 =>
            /\ u.ok /\ u.ret.some
            /\ u.ret.tx = h.commits[h.head].inversion
            /\ u.history.head = h.head - 1
            /\ u.history.commits = h.commits
            /\ r.ok /\ r.ret.some
            /\ r.ret.tx = h.commits[h.head].transaction
            /\ r.history = h

\* a history of two different commits with head between them
C11_Witness ==
    /\ ~panicked
    /\ doc.history.head = 1
    /\ Len(doc.history.commits) = 2
    /\ doc.history.commits[1] # doc.history.commits[2]

-----------------------------------------------------------------------------
(* Properties of the mutation entry calls, under SpecAttach                *)

\* C12: the attach policy is enforced by assertion.  An entry call that
\* requires an open transaction (policy RequireTransactionAlive, or
\* with_transaction of the newer snapshot) made while none is open, and
\* one that requires none (policy Disallow, or with_new_transaction) made
\* while one is open, aborts, and the callback has not been called; a call
\* with policy Allow does not abort, and when a transaction is open the
\* callback is given that transaction.
C12_AttachPolicy ==
    /\ (/\ last.api = "attach" /\ last.op = "with_transaction"
        /\ last.policy = "RequireTransactionAlive" /\ ~last.before.some)
            => (panicked /\ ~last.ran)
    /\ (/\ last.api = "attach" /\ last.op = "with_transaction"
        /\ last.policy = "Disallow" /\ last.before.some)
            => (panicked /\ ~last.ran)
    /\ (/\ last.api = "attach" /\ last.op = "with_transaction"
        /\ last.policy = "Allow")
            => /\ ~panicked
               /\ last.ran
               /\ last.before.some
                    => last.transaction = last.before.transaction
    /\ (/\ last.api = "leave" /\ last.op = "with_transaction"
        /\ ~last.before.some)
            => (panicked /\ doc.tx_context = last.before)
    /\ (/\ last.api = "leave" /\ last.op = "with_new_transaction"
        /\ last.before.some)
            => (panicked /\ doc.tx_context = last.before)

\* a call with policy Allow made on an open transaction that holds an
\* edit
C12_Witness ==
    /\ last.api = "attach"
    /\ last.op = "with_transaction"
    /\ last.policy = "Allow"
    /\ last.before.some
    /\ HasEdit(last.before.transaction)
    /\ ~panicked

\* a call of the newer snapshot aborted by its assertion
C12_WitnessLeave ==
    /\ last.api = "leave"
    /\ last.op = "with_new_transaction"
    /\ last.before.some
    /\ panicked

-----------------------------------------------------------------------------
(* Properties of the insert session, under SpecSession                     *)

\* C16: insert session protocol.  After any switch_to_insert_mode_*
\* command the document has an open transaction, it stays open after every
\* Insert-mode key, and the next switch_to_normal_mode commits it: after
\* every command that ran to its end the transaction of the document is
\* open exactly when the buffer is in Insert mode.
C16_InsertSession ==
    ~panicked =>
        /\ Document_transaction_active(doc) <=> buf.mode = "Insert"
        /\ last.op \in {"switch_to_insert_mode", "insert_mode_on_key"}
                => Document_transaction_active(doc)
        /\ last.op = "switch_to_normal_mode"
                => ~Document_transaction_active(doc)

\* C16 for a buffer that has Insert among its modes
C16_InsertSessionOfTextBuffer ==
    (~panicked /\ "Insert" \in buf.avail_modes) =>
        /\ Document_transaction_active(doc) <=> buf.mode = "Insert"
        /\ last.op \in {"switch_to_insert_mode", "insert_mode_on_key"}
                => Document_transaction_active(doc)
        /\ last.op = "switch_to_normal_mode"
                => ~Document_transaction_active(doc)

-----------------------------------------------------------------------------
(* Properties of the buffer position, under Spec                           *)

\* the command that ran last ended with a call of update_text_position
\* on the text the document has now
PositionUpdated ==
    /\ ~panicked
    /\ \/ last.op \in {"switch_to_insert_mode", "insert_mode_on_key"}
       \/ last.op = "switch_to_normal_mode" /\ doc.text = last.text_before
       \/ last.op \in {"undo", "redo"} /\ last.ret.some
                /\ last.ret.v <= len_chars(doc.text)

\* C19: after every call of update_text_position, including calls made
\* after the text was mutated by an edit, undo or redo, line_idx is the
\* line of text_pos and line_char is the first character of that line in
\* the current text.
C19_LineOfPosition ==
    PositionUpdated =>
        /\ char_to_line_ok(doc.text, buf.text_pos)
        /\ buf.line_idx = char_to_line(doc.text, buf.text_pos)
        /\ line_to_char_ok(doc.text, buf.line_idx)
        /\ buf.line_char = line_to_char(doc.text, buf.line_idx)

\* C19 for a position that is inside the text
C19_LineOfPositionInside ==
    (PositionUpdated /\ char_to_line_ok(doc.text, buf.text_pos)) =>
        /\ buf.line_idx = char_to_line(doc.text, buf.text_pos)
        /\ line_to_char_ok(doc.text, buf.line_idx)
        /\ buf.line_char = line_to_char(doc.text, buf.line_idx)

-----------------------------------------------------------------------------
(* Properties of update_text_position, under SpecBuf                       *)

\* the buffer was placed (by new_text or update_text_position) at a target
\* within the document, with allow_on_newline false
PlacedOffNewline ==
    /\ ~last.params.allow_on_newline
    /\ last.pos <= len_chars(doc.text)

\* C20: for every text and every target position within the document,
\* update_text_position with allow_on_newline = false, with or without
\* line keeping, runs to its end and never leaves text_pos on a newline
\* character unless the line of the buffer consists solely of the newline.
C20_NotOnNewline ==
    PlacedOffNewline =>
        /\ ~panicked
        /\ get_char(doc.text, buf.text_pos) = [some |-> TRUE, v |-> NL]
                => line(doc.text, buf.line_idx) = <<NL>>

\* a call with line keeping whose target was the newline that ends a line
\* longer than the newline, and the buffer stepped back from it
C20_Witness ==
    /\ last.op = "update_text_position"
    /\ PlacedOffNewline
    /\ last.params.line_keep
    /\ get_char(doc.text, last.pos) = [some |-> TRUE, v |-> NL]
    /\ Len(line(doc.text, buf.line_idx)) > 1
    /\ buf.text_pos = last.pos - 1
    /\ ~panicked

\* C20 at the end of an insert session, under Spec: switch_to_normal_mode
\* places the buffer with allow_on_newline false and line keeping
C20_NotOnNewlineAfterSession ==
    (/\ ~panicked
     /\ last.op = "switch_to_normal_mode"
     /\ doc.text = last.text_before
     /\ buf.text_pos <= len_chars(doc.text)) =>
        (get_char(doc.text, buf.text_pos) = [some |-> TRUE, v |-> NL]
            => /\ line_ok(doc.text, buf.line_idx)
               /\ line(doc.text, buf.line_idx) = <<NL>>)

-----------------------------------------------------------------------------
(* Properties of cursor movement, under SpecMove                           *)

\* the step is a call of update_text_position with line keeping, made
\* directly or by move_left or move_right
LineKeepingStep ==
    \/ last'.op \in {"move_left", "move_right"}
    \/ last'.op = "update_text_position" /\ last'.params.line_keep

\* C21: with line keeping the cursor never leaves its line: a call of
\* update_text_position with line_keep, and so move_left and move_right with
\* any count, runs to its end, leaves line_idx as it was before the call and
\* puts text_pos on that line.
C21_LineKept ==
    [][LineKeepingStep =>
        /\ ~panicked'
        /\ buf'.line_idx = buf.line_idx
        /\ char_to_line_ok(doc.text, buf'.text_pos)
        /\ char_to_line(doc.text, buf'.text_pos) = buf.line_idx]_vars

\* C21 witness: move_right with a count that reaches past the end of a line
\* that is not the last one has stopped on the last character of the line
C21_Witness ==
    /\ last.op = "move_right" /\ last.count = Some(3)
    /\ ~panicked
    /\ doc.text = <<"a", "b", NL>>
    /\ buf.line_idx = 0 /\ buf.text_pos = 1

\* move_left with a count that reaches before the start of the second line
\* has stopped on the first character of that line
C21_WitnessLeft ==
    /\ last.op = "move_left" /\ last.count = Some(3)
    /\ ~panicked
    /\ doc.text = <<"a", NL, "b">>
    /\ buf.line_idx = 1 /\ buf.text_pos = 2

\* the step is one of the four movement commands of the claim
MovementStep == last'.op \in {"move_left", "move_right", "move_up", "move_down"}

\* C25: cursor movement is clamped and never aborts: move_left, move_right,
\* move_up and move_down with any count run to their end and leave
\* 0 <= text_pos <= len_chars.
C25_MovesNeverAbort ==
    [][MovementStep =>
        /\ ~panicked'
        /\ 0 <= buf'.text_pos /\ buf'.text_pos <= len_chars(doc.text)]_vars

\* C25 witness: move_down with a count larger than the number of lines
\* below has completed, on the last line
C25_Witness ==
    /\ last.op = "move_down" /\ last.count = Some(3)
    /\ ~panicked
    /\ doc.text = <<"a", NL, "b">>
    /\ buf.line_idx = 1 /\ buf.text_pos = 2

\* move_right and move_left have completed on the empty text
C25_WitnessEmpty ==
    /\ last.op \in {"move_right", "move_left"}
    /\ ~panicked
    /\ doc.text = <<>>
    /\ buf.text_pos = 0

\* the step is a vertical move
VerticalStep ==
    last'.op \in {"move_up", "move_down", "goto_line_default_top",
                  "goto_line_default_bottom"}

\* C22: vertical moves never modify saved_column: every step of move_up,
\* move_down, goto_line_default_top or goto_line_default_bottom runs to its
\* end and leaves saved_column as it was, so a sequence of them ends with the
\* saved_column it started with.
C22_SavedColumnKept ==
    [][VerticalStep => ~panicked' /\ buf'.saved_column = buf.saved_column]_vars

\* C22 witness: move_down from column 2 has landed on an empty line and the
\* saved column is still 2
C22_Witness ==
    /\ last.op = "move_down"
    /\ ~panicked
    /\ doc.text = <<"a", "b", "c", NL, "d", NL, NL, "e", "f">>
    /\ buf.line_idx = 2 /\ buf.text_pos = 6
    /\ buf.saved_column = 2

\* two vertical moves through a shorter line have come back to column 2
C22_WitnessBack ==
    /\ last.op = "move_up" /\ cmds = 2
    /\ ~panicked
    /\ doc.text = <<"a", "b", "c", NL, "d", NL, NL, "e", "f">>
    /\ buf.line_idx = 0 /\ buf.text_pos = 2
    /\ buf.saved_column = 2

\* number of characters of line L before its line break
LineWidth(text, L) ==
    LET ln == line(text, L)
    IN  IF ln # <<>> /\ ln[Len(ln)] = NL THEN Len(ln) - 1 ELSE Len(ln)

\* the line a vertical move by c lines lands on: dir is 1 for down, -1 for up
LandingLine(text, from, dir, c) ==
    Min(Max(from + dir * c, 0), len_lines(text) - 1)

\* the position on line L for a saved column: the column, or the last
\* character of the line when the line is shorter, or the start of an empty
\* line
LandingPos(text, L, column) ==
    IF LineWidth(text, L) = 0 THEN line_to_char(text, L)
    ELSE line_to_char(text, L) + Min(column, LineWidth(text, L) - 1)

\* the vertical move of the step lands where the claim says
LandsAsClaimed(dir) ==
    LET c == unwrap_or(last'.count, 1)
        L == LandingLine(doc.text, buf.line_idx, dir, c)
    IN  /\ ~panicked'
        /\ buf'.line_idx = L
        /\ buf'.text_pos = LandingPos(doc.text, L, buf.saved_column)

\* C23: move_down / move_up by count c lands on the line c below / above,
\* clamped to the first and last line, at the saved column or at the last
\* character before the line break of a shorter line, or at the start of an
\* empty line; on the last line move_down, and on the first line move_up,
\* leaves text_pos unchanged.
C23_VerticalLanding ==
    [][/\ last'.op = "move_down" =>
            /\ LandsAsClaimed(1)
            /\ buf.line_idx = len_lines(doc.text) - 1 => buf'.text_pos = buf.text_pos
       /\ last'.op = "move_up" =>
            /\ LandsAsClaimed(-1)
            /\ buf.line_idx = 0 => buf'.text_pos = buf.text_pos]_vars

\* the landing line and position alone
C23_LandingOnly ==
    [][/\ last'.op = "move_down" => LandsAsClaimed(1)
       /\ last'.op = "move_up" => LandsAsClaimed(-1)]_vars

\* the step is a direct call of update_text_position
UpdateStep == last'.op = "update_text_position"

\* C24 as stated: update_text_position returns the resolved position exactly
\* when it differs from the text_pos the buffer had before the call, and
\* none when the cursor did not move.
C24_ReturnsWhenMoved ==
    [][UpdateStep =>
        last'.ret = IF buf'.text_pos # buf.text_pos THEN Some(buf'.text_pos)
                    ELSE None]_vars

\* C24 amended: update_text_position returns the resolved position exactly
\* when it differs from the position the caller asked for, and none when
\* the cursor was put at the requested position or the requested position
\* is beyond the text (the buffer is then left as it was).
C24_ReturnsWhenAdjusted ==
    [][UpdateStep =>
        /\ ~panicked'
        /\ last'.pos > len_chars(doc.text) => buf' = buf /\ last'.ret = None
        /\ last'.pos <= len_chars(doc.text) =>
            last'.ret = IF buf'.text_pos # last'.pos THEN Some(buf'.text_pos)
                        ELSE None]_vars

\* C24 witness: a call whose target is the newline ending "ab" has returned
\* the position before it
C24_Witness ==
    /\ last.op = "update_text_position"
    /\ ~panicked
    /\ doc.text = <<"a", "b", NL>>
    /\ last.pos = 2 /\ buf.text_pos = 1 /\ last.ret = Some(1)

\* a call has moved the cursor to its target and returned none
C24_WitnessNone ==
    /\ last.op = "update_text_position"
    /\ ~panicked /\ cmds = 1
    /\ doc.text = <<"a", "b", NL>>
    /\ last.pos = 1 /\ buf.text_pos = 1 /\ last.ret = None

-----------------------------------------------------------------------------
(* Properties of the positions and lengths a transaction records, under    *)
(* SpecTx                                                                  *)

\* replaying the changes of changeset i of tx on the text, from its
\* start_pos, ends at its end_pos
ReplayEndsAtEndPos(i) ==
    LET cs == tx.changesets[i]
        r == ChangeSet_apply(cs, 0, tx_orig)
    IN  r.ok => r.pos = cs.end_pos

\* C26: after any sequence of insert, move_forward_by and delete calls on a
\* changeset, end_pos is the position ChangeSet::apply with offset 0 returns,
\* for every inserted string, also one with multi-byte characters.
C26_EndPosIsReplayPos ==
    Len(tx.changesets) = 1 => ReplayEndsAtEndPos(1)

\* the same for transactions whose inserted strings hold one-byte
\* characters only
C26_EndPosIsReplayPosAscii ==
    (Len(tx.changesets) = 1 /\ OneByteStrings(tx)) => ReplayEndsAtEndPos(1)

\* len_before and len_after of tx are the character counts of the text and
\* of the text one application of tx gives
LengthsAreCharCounts ==
    LET r == Transaction_apply(tx, tx_orig)
    IN  /\ tx.len_before = len_chars(tx_orig)
        /\ r.ok => tx.len_after = len_chars(r.rope)

\* tx has no Delete change
NoDelete(t) ==
    \A i \in 1..Len(t.changesets) :
        \A j \in 1..Len(t.changesets[i].changes) :
            t.changesets[i].changes[j].kind # "Delete"

\* C27: for a transaction created on text T and extended by insert and
\* delete calls, len_before is the character count of T and len_after the
\* character count of the text that applying the transaction once to T gives.
C27_LengthsAreCharCounts ==
    tx.repeat = 1 => LengthsAreCharCounts

\* the same for transactions that delete nothing
C27_LengthsOfInserts ==
    (tx.repeat = 1 /\ NoDelete(tx)) => LengthsAreCharCounts

-----------------------------------------------------------------------------
(* Properties of the saved column, under SpecMove                          *)

\* the step is a call of update_text_position with update_saved_column, made
\* directly with a target inside the text, or by move_left or move_right
SavingStep ==
    \/ last'.op \in {"move_left", "move_right"}
    \/ /\ last'.op = "update_text_position"
       /\ last'.params.update_saved_column
       /\ last'.pos <= len_chars(doc.text)

BeforeCursor(b, text) ==
    RopeSlice(text, line_to_char(text, b.line_idx), b.text_pos)

-----------------------------------------------------------------------------
(* SpanIterator (kaka-core/src/span.rs)                                    *)

\* graphemes::next_grapheme_boundary(slice, char_idx)
next_grapheme_boundary(slice, char_idx) ==
    nth_next_grapheme_boundary(slice, char_idx, 1)

\* SpanKind::SELECTION and SpanKind::empty()
SELECTION == "SELECTION"
NoKind == "empty"

\* Span { kind, range: (lo..hi) }
Span(kind, lo, hi) == [kind |-> kind, lo |-> lo, hi |-> hi]

RECURSIVE SortByStart(_)
\* selections.sort_by_key(|(start, _end)| *start) of selections that are
\* given in any order: a set of pairs with different starts
SortByStart(sels) ==
    IF sels = {} THEN <<>>
    ELSE LET first == CHOOSE s \in sels : \A t \in sels : s[1] <= t[1]
         IN  <<first>> \o SortByStart(sels \ {first})

\* SpanIterator::new(rope, selections)
SpanIterator_new(rope, sels) ==
    [done |-> len_chars(rope) = 0,
     rope |-> rope,
     cursor |-> 0,
     selection_idx |-> 0,
     selections |-> SortByStart(sels)]

\* SpanIterator::next(): [it, ret, ok], ret the Option<Span> it returns;
\* ok is false at unreachable!()
SpanIterator_next(it) ==
    IF it.done THEN [it |-> it, ret |-> None, ok |-> TRUE]
    ELSE IF it.selections = <<>>
    THEN [it |-> [it EXCEPT !.done = TRUE],
          ret |-> Some(Span(NoKind, 0, len_chars(it.rope))),
          ok |-> TRUE]
    ELSE
    LET selection == it.selections[it.selection_idx + 1]
        start == selection[1]
        end == next_grapheme_boundary(it.rope, selection[2])
        idx == it.selection_idx + 1
        exhausted == idx = Len(it.selections)
        gap_end == IF exhausted THEN len_chars(it.rope)
                   ELSE it.selections[idx + 1][1]
        r == IF it.cursor = start
             THEN [it |-> [it EXCEPT !.cursor = end],
                   span |-> Span(SELECTION, it.cursor, end), ok |-> TRUE]
             ELSE IF it.cursor = end
             THEN [it |-> [it EXCEPT !.selection_idx = idx,
                                     !.done = exhausted,
                                     !.cursor = gap_end],
                   span |-> Span(NoKind, it.cursor, gap_end), ok |-> TRUE]
             ELSE IF it.cursor = 0
             THEN [it |-> [it EXCEPT !.cursor = start],
                   span |-> Span(NoKind, 0, start), ok |-> TRUE]
             ELSE [it |-> it, span |-> Span(NoKind, 0, 0), ok |-> FALSE]
    IN  IF ~r.ok THEN [it |-> it, ret |-> None, ok |-> FALSE]
        ELSE IF r.span.lo >= r.span.hi
        THEN [it |-> [r.it EXCEPT !.done = TRUE], ret |-> None, ok |-> TRUE]
        ELSE [it |-> r.it, ret |-> Some(r.span), ok |-> TRUE]

-----------------------------------------------------------------------------
(* SpecSpan: a SpanIterator made for a line and a set of inclusive         *)
(* selections, and run until it returns None                               *)

\* longest line
MaxLine == 5
\* most selections given to the iterator
MaxSelections == 3

\* a line of n characters
LineOf(n) == [i \in 1..n |-> "a"]

\* the inclusive selections (start, end) inside a line of n characters
SelectionsIn(n) == {<<a, b>> : a \in 0..n - 1, b \in 0..n - 1} \cap
                   {s \in Nat \X Nat : s[1] <= s[2]}

\* no two of the selections start at the same character
DistinctStarts(sels) ==
    \A s \in sels : \A t \in sels : s[1] = t[1] => s = t

InitSpan ==
    /\ \E n \in 0..MaxLine :
        \E sels \in SUBSET SelectionsIn(n) :
            /\ Cardinality(sels) <= MaxSelections
            /\ DistinctStarts(sels)
            /\ iter = SpanIterator_new(LineOf(n), sels)
    /\ spans = <<>>
    /\ doc = Document_new(<<>>)
    /\ buf = Buffer_new_text(0, Document_new(<<>>)).buf
    /\ panicked = FALSE
    /\ last = NoLast
    /\ cmds = 0
    /\ keys = 0
    /\ TxIdle
    /\ SelIdle

\* one call of next() by the consumer of the iterator, which stops at None
SpanNext ==
    /\ ~panicked
    /\ ~iter.done
    /\ LET r == SpanIterator_next(iter)
       IN  /\ iter' = r.it
           /\ spans' = IF r.ret.some THEN Append(spans, r.ret.v) ELSE spans
           /\ panicked' = ~r.ok
    /\ UNCHANGED <<doc, buf, last, cmds, keys, txvars, selvars>>

NextSpan == SpanNext

SpecSpan == InitSpan /\ [][NextSpan]_vars

-----------------------------------------------------------------------------
(* Properties of the spans, under SpecSpan                                 *)

\* the selections of the iterator, as a set
SelectionSet == {iter.selections[i] : i \in 1..Len(iter.selections)}

\* no two selections share a character
NonOverlapping ==
    \A s \in SelectionSet : \A t \in SelectionSet :
        s # t => s[2] < t[1] \/ t[2] < s[1]

\* the spans are non-empty, in increasing order, contiguous, and cover
\* exactly [0, n)
SpansCover(n) ==
    /\ spans # <<>>
    /\ \A i \in 1..Len(spans) : spans[i].lo < spans[i].hi
    /\ spans[1].lo = 0
    /\ spans[Len(spans)].hi = n
    /\ \A i \in 1..Len(spans) - 1 : spans[i].hi = spans[i + 1].lo

\* each selection is exactly one SELECTION span, every SELECTION span is a
\* selection, and each gap is one span: no two spans that are not
\* selections follow each other
SpansMatchSelections ==
    /\ \A s \in SelectionSet :
        Cardinality({i \in 1..Len(spans) :
            spans[i] = Span(SELECTION, s[1], s[2] + 1)}) = 1
    /\ \A i \in 1..Len(spans) :
        spans[i].kind = SELECTION => <<spans[i].lo, spans[i].hi - 1>> \in SelectionSet
    /\ \A i \in 1..Len(spans) - 1 :
        spans[i].kind = SELECTION \/ spans[i + 1].kind = SELECTION

\* C29: for a line of n > 0 characters and pairwise non-overlapping
\* inclusive selections, the iterator yields non-empty spans in increasing
\* order that are contiguous and cover exactly [0, n), each selection
\* (start, end) as one SELECTION span [start, end + 1) and each gap as one
\* span that is not a selection.
C29_SpansCoverLine ==
    (iter.done /\ len_chars(iter.rope) > 0 /\ NonOverlapping) =>
        /\ ~panicked
        /\ SpansCover(len_chars(iter.rope))
        /\ SpansMatchSelections

\* no selection starts right behind another one
NoneAdjacent ==
    \A s \in SelectionSet : \A t \in SelectionSet : t[1] # s[2] + 1

\* the same for selections with at least one character between any two
C29_SpansCoverLineWithGaps ==
    (iter.done /\ len_chars(iter.rope) > 0 /\ NonOverlapping /\ NoneAdjacent) =>
        /\ ~panicked
        /\ SpansCover(len_chars(iter.rope))
        /\ SpansMatchSelections

-----------------------------------------------------------------------------
(* Properties of the single-changeset round trip, under SpecTx             *)

\* applying tx to the text it was built on and then its undo to the result
\* gives the text back
RestoresText ==
    LET applied == Transaction_apply(tx, tx_orig)
        inverse == Transaction_undo(tx, tx_orig)
        back == Transaction_apply(inverse.tx, applied.rope)
    IN  applied.ok => (inverse.ok /\ back.ok /\ back.rope = tx_orig)

\* C30: single-changeset round trip: for a transaction with one changeset
\* and repeat 1, built by any interleaving of move_forward_by, insert and
\* delete that stays inside the text T, applying tx to T and then tx.undo(T)
\* to the result restores T exactly.
C30_SingleChangesetRoundTrip ==
    (Len(tx.changesets) = 1 /\ tx.repeat = 1) => RestoresText

\* the same for transactions whose inserted strings hold one-byte
\* characters only
C30_SingleChangesetRoundTripAscii ==
    (Len(tx.changesets) = 1 /\ tx.repeat = 1 /\ OneByteStrings(tx)) => RestoresText

-----------------------------------------------------------------------------
(* Properties of Transaction::move_to, under SpecTx                        *)

\* move_to(pos) on tx does what the three arms of the claim say
MovesTo(pos) ==
    LET head == changeset_head(tx)
        t == Transaction_move_to(tx, pos)
    IN  /\ Transaction_move_to_ok(tx, pos)
        /\ changeset_head(t).end_pos = pos
        /\ pos > head.end_pos =>
            /\ Len(t.changesets) = Len(tx.changesets)
            /\ changeset_head(t).start_pos = head.start_pos
            /\ changeset_head(t).changes # <<>>
            /\ changeset_head(t).changes[Len(changeset_head(t).changes)].kind
               = "MoveForward"
        /\ (pos < head.end_pos /\ head.changes = <<>>) =>
            /\ Len(t.changesets) = Len(tx.changesets)
            /\ changeset_head(t) = ChangeSet_new(pos)
        /\ (pos < head.end_pos /\ head.changes # <<>>) =>
            /\ t.changesets = Append(tx.changesets, ChangeSet_new(pos))
        /\ pos = head.end_pos => t = tx

\* C31: after move_to(pos), for every pos >= 0 and every state of the
\* transaction, the call has not aborted and end_pos of the last changeset
\* is pos: a forward move is appended to the head changeset, a backward
\* move shifts the anchor of an empty head changeset or opens a new
\* changeset anchored at pos, an equal position changes nothing.
C31_MoveToReachesPos ==
    \A pos \in 0..len_chars(tx_orig) + 2 : MovesTo(pos)

\* C31 witness: move_to(0) behind an insertion of two characters has opened
\* a second changeset anchored at 0
C31_Witness ==
    /\ Len(tx.changesets) = 2
    /\ tx.changesets[1].changes = <<Insert(<<"x", "y">>)>>
    /\ tx.changesets[1].end_pos = 2
    /\ tx.changesets[2] = ChangeSet_new(0)
    /\ tx = Transaction_move_to([tx EXCEPT !.changesets = <<tx.changesets[1]>>], 0)

-----------------------------------------------------------------------------
(* Properties of the transaction entry points, under SpecSession           *)

\* a command that opens a fresh transaction (with_new_transaction)
StartsTransaction(op) == op \in {"kill", "kill_line"}

\* a command that continues the open transaction (with_transaction)
ContinuesTransaction(op) == op \in {"insert_mode_on_key", "switch_to_normal_mode"}

\* what every dispatch of a command respects when no entry point can hit
\* its assertion
EntryPointsRespected ==
    /\ StartsTransaction(last'.op) => ~Document_transaction_active(doc)
    /\ ContinuesTransaction(last'.op) => Document_transaction_active(doc)
    /\ buf'.mode # "Insert" => ~Document_transaction_active(doc')

\* C32: no sequence of key commands on any buffer, text or logging, makes a
\* transaction entry point hit its assertion: kill and kill_line are never
\* dispatched on a document with an open transaction, a command that
\* continues a transaction is never dispatched without one, and whenever
\* the buffer is not in Insert mode its document has no open transaction.
C32_EntryPointsNeverAssert == [][EntryPointsRespected]_vars

\* C32 for a buffer that has Insert among its modes
C32_EntryPointsOfTextBuffer ==
    [][("Insert" \in buf.avail_modes) => EntryPointsRespected]_vars

-----------------------------------------------------------------------------
(* Properties of the commit of an insert session, under Spec               *)

\* the step is the switch_to_normal_mode that closes an insert session
CommitStep == buf.mode = "Insert" /\ last'.op = "switch_to_normal_mode"

\* C33: committing an insert session never aborts.  For every text and
\* every sequence of insert-mode keys the switch_to_normal_mode that
\* commits the session runs to its end: the inverse transaction is computed
\* from ranges inside the saved text and the assertion on len_before holds.
C33_CommitNeverAborts == [][CommitStep => ~panicked']_vars

\* C33 for the first session on a loaded text, entered without a count,
\* whose keys deleted nothing and inserted one-byte characters only
C33_CommitOfInsertsNeverAborts ==
    [][(/\ CommitStep
        /\ cmds = 1
        /\ doc.tx_context.transaction.repeat = 1
        /\ NoDelete(doc.tx_context.transaction)
        /\ OneByteStrings(doc.tx_context.transaction)) => ~panicked']_vars

-----------------------------------------------------------------------------
(* Properties of the position inside an insert session, under Spec         *)

\* an insert session is open and its entry command or one of its keys ran
\* to its end
InSession ==
    /\ ~panicked
    /\ buf.mode = "Insert"
    /\ Document_transaction_active(doc)
    /\ last.op \in {"switch_to_insert_mode", "insert_mode_on_key"}

\* the open transaction ends where the buffer is, inside the text
SessionPositionAgrees ==
    /\ changeset_head(doc.tx_context.transaction).end_pos = buf.text_pos
    /\ 0 <= buf.text_pos
    /\ buf.text_pos <= len_chars(doc.text)

\* C34: while an insert session is open, after the entry command and after
\* every insert-mode key on any text, end_pos of the last changeset of the
\* open transaction is the buffer's text_pos, and text_pos is between 0
\* and len_chars.
C34_SessionPosition == InSession => SessionPositionAgrees

\* C34 for a session entered as the first command on a loaded text
C34_SessionPositionFirst == (InSession /\ cmds = 1) => SessionPositionAgrees

-----------------------------------------------------------------------------
(* Properties of the position after a normal-mode edit, under Spec         *)

\* the last command was a text-changing command of normal mode that ran to
\* its end
AfterNormalEdit ==
    /\ ~panicked
    /\ buf.mode = "Normal"
    /\ last.op \in {"kill_line", "kill", "undo", "redo"}

\* the position of the buffer is valid for the text of the document
PositionValid ==
    /\ buf.text_pos <= len_chars(doc.text)
    /\ buf.line_idx = char_to_line(doc.text, buf.text_pos)
    /\ line_to_char_ok(doc.text, buf.line_idx)
    /\ buf.line_char = line_to_char(doc.text, buf.line_idx)

\* C35: after every text-changing command in normal mode (kill_line, kill,
\* undo, redo) the buffer position is valid for the new text: text_pos is
\* at most len_chars, line_idx is the line of text_pos and line_char the
\* first character of that line, also after kill_line removed the last
\* line of the document.
C35_PositionAfterEdit == AfterNormalEdit => PositionValid

\* C35 for kill as the first command on a loaded text
C35_PositionAfterFirstKill ==
    (AfterNormalEdit /\ last.op = "kill" /\ cmds = 1) => PositionValid

-----------------------------------------------------------------------------
(* Visual mode: the Selection held by ModeData::Visual (editor/mode.rs,    *)
(* kaka-core selection.rs) and what Buffer does to it (editor/buffer.rs).  *)
(* buf.mode is the ModeKind of current_mode, sel is its Selection.         *)

\* Selection::at_pos(pos)
Selection_at_pos(pos) == [some |-> TRUE, anchor |-> pos, head |-> pos]

\* Selection::update_head(pos)
Selection_update_head(s, pos) == [s EXCEPT !.head = pos]

\* ModeData::new(kind, pos)
ModeData_new(kind, pos) ==
    IF kind = "Visual" THEN Selection_at_pos(pos) ELSE NoSelection

\* ModeData::update(pos)
ModeData_update(s, pos) == IF s.some THEN Selection_update_head(s, pos) ELSE s

\* the selection after Buffer::switch_mode(mode) on buffer b: set_mode_impl
\* replaces current_mode unless the buffer is not capable of the mode
Buffer_switch_mode_selection(s, b, mode) ==
    IF mode \in b.avail_modes THEN ModeData_new(mode, b.text_pos) ELSE s

\* the selection after update_text_position(rope, pos, params) took buffer
\* b to u.buf: current_mode.update(pos) runs when text_pos changed
Buffer_update_text_position_selection(s, b, u, pos) ==
    IF u.ok /\ b.text_pos # u.buf.text_pos THEN ModeData_update(s, pos) ELSE s

\* the position move_left asks update_text_position for
move_left_pos(b, text, count) ==
    nth_prev_grapheme_boundary(text, b.text_pos, unwrap_or(count, 1))

\* the position move_right asks update_text_position for
move_right_pos(b, text, count) ==
    b.line_char + nth_next_grapheme_boundary(line(text, b.line_idx),
                        SatSub(b.text_pos, b.line_char), unwrap_or(count, 1))

\* the position goto_line_impl asks update_text_position for
goto_line_pos(b, text, goto_line) ==
    LET goto_line_idx == GotoLine_to_line(goto_line, b, text)
        goto_line_start == line_to_char(text, goto_line_idx)
        goto_line_end == SatSub(line_to_char(text, goto_line_idx + 1), 1)
    IN  Max(Min(goto_line_start + b.saved_column, goto_line_end), goto_line_start)

\* the GotoLine values of move_up, move_down, goto_line_default_top and
\* goto_line_default_bottom for ctx.count
GotoLines(text, count) ==
    { Offset(0 - unwrap_or(count, 1)), Offset(unwrap_or(count, 1)),
      Fixed(unwrap_or(CountLine(count), 0)),
      Fixed(unwrap_or(CountLine(count), SatSub(len_lines(text), 1))) }

-----------------------------------------------------------------------------
(* SpecVisual: a text buffer that enters Visual mode, is moved by the      *)
(* commands of the visual keymap and by calls of update_text_position,     *)
(* and leaves Visual mode                                                  *)

\* commands run on the buffer
MaxVisualCmds == 3

\* What a command records in last: its name, the position it asked
\* update_text_position for, and the position at which Visual mode was
\* entered
VisualLast(op, pos, entered) == [op |-> op, pos |-> pos, entered |-> entered]

InitVisual ==
    /\ \E text \in MoveTexts :
        \E pos \in 0..SatSub(Len(text), 1) :
            /\ doc = Document_new(text)
            /\ buf = Buffer_new_text(pos, Document_new(text)).buf
    /\ sel = NoSelection
    /\ editor = Editor_init
    /\ last = VisualLast("new_text", 0, 0)
    /\ panicked = FALSE
    /\ cmds = 0
    /\ keys = 0
    /\ TxIdle
    /\ SpanIdle

\* a command that ends with update_text_position(doc, pos, ..) giving r
VisualStep(r, op, pos) ==
    /\ ~panicked /\ cmds < MaxVisualCmds
    /\ buf.mode = "Visual"
    /\ buf' = r.buf
    /\ sel' = Buffer_update_text_position_selection(sel, buf, r, pos)
    /\ panicked' = ~r.ok
    /\ last' = VisualLast(op, pos, last.entered)
    /\ cmds' = cmds + 1
    /\ UNCHANGED <<doc, keys, editor, txvars, spanvars>>

\* buf.switch_mode(ModeKind::Visual), bound to `v` in the normal keymap
SwitchToVisualMode ==
    /\ ~panicked /\ cmds < MaxVisualCmds
    /\ buf.mode = "Normal"
    /\ buf' = Buffer_switch_mode(buf, "Visual")
    /\ sel' = Buffer_switch_mode_selection(sel, buf, "Visual")
    /\ last' = VisualLast("switch_to_visual_mode", buf.text_pos, buf.text_pos)
    /\ cmds' = cmds + 1
    /\ UNCHANGED <<doc, panicked, keys, editor, txvars, spanvars>>

VisualMoveLeft ==
    \E count \in MoveCounts :
        VisualStep(move_left(buf, doc.text, count), "move_left",
                   move_left_pos(buf, doc.text, count))

VisualMoveRight ==
    \E count \in MoveCounts :
        VisualStep(move_right(buf, doc.text, count), "move_right",
                   move_right_pos(buf, doc.text, count))

\* move_up, move_down, goto_line_default_top, goto_line_default_bottom
VisualGotoLine ==
    \E count \in MoveCounts :
        \E goto_line \in GotoLines(doc.text, count) :
            VisualStep(goto_line_impl(buf, doc.text, goto_line), "goto_line",
                       goto_line_pos(buf, doc.text, goto_line))

\* a direct call of Buffer::update_text_position, with any parameters
VisualUpdateTextPosition ==
    \E pos \in 0..len_chars(doc.text) + 1,
       update_saved_column \in BOOLEAN, line_keep \in BOOLEAN,
       allow_on_newline \in BOOLEAN :
        VisualStep(Buffer_update_text_position(buf, doc.text, pos,
                        Params(update_saved_column, line_keep, allow_on_newline)),
                   "update_text_position", pos)

\* switch_to_normal_mode(ctx) in Visual mode: buf.switch_mode(Mode::Normal)
VisualToNormalMode ==
    /\ ~panicked /\ cmds < MaxVisualCmds
    /\ buf.mode = "Visual"
    /\ buf' = Buffer_switch_mode(buf, "Normal")
    /\ sel' = Buffer_switch_mode_selection(sel, buf, "Normal")
    /\ last' = VisualLast("switch_to_normal_mode", buf.text_pos, last.entered)
    /\ cmds' = cmds + 1
    /\ UNCHANGED <<doc, panicked, keys, editor, txvars, spanvars>>

NextVisual ==
    \/ SwitchToVisualMode
    \/ VisualMoveLeft
    \/ VisualMoveRight
    \/ VisualGotoLine
    \/ VisualUpdateTextPosition
    \/ VisualToNormalMode

SpecVisual == InitVisual /\ [][NextVisual]_vars

-----------------------------------------------------------------------------
(* Properties of the selection, under SpecVisual                           *)

\* the buffer is in Visual mode and the last command called
\* update_text_position and ran to its end
VisualUpdated ==
    /\ ~panicked
    /\ buf.mode = "Visual"
    /\ last.op \in {"move_left", "move_right", "goto_line", "update_text_position"}

\* C36: while a buffer is in Visual mode, after every update_text_position
\* call the head of the selection is the buffer's text_pos, also when the
\* requested position was clamped, and the anchor of the selection is
\* still the position at which Visual mode was entered.
C36_HeadIsTextPos ==
    VisualUpdated =>
        /\ sel.some
        /\ sel.head = buf.text_pos
        /\ sel.anchor = last.entered

\* the anchor part of C36: the selection exists and its anchor is the
\* position at which Visual mode was entered
C36_AnchorKept ==
    VisualUpdated => (sel.some /\ sel.anchor = last.entered)

-----------------------------------------------------------------------------
(* Buffer management (editor/command/buffer_mgmt.rs).  editor.buffers maps *)
(* the BufferId of each buffer to its immortal flag, in the order of the   *)
(* BTreeMap; the commands give [editor, ok].                               *)

\* ctx.editor.buffers.keys()
BufferIds(e) == DOMAIN e.buffers

\* the smallest and the greatest of a non-empty set of ids
FirstId(ids) == CHOOSE id \in ids : \A other \in ids : id <= other
LastId(ids) == CHOOSE id \in ids : \A other \in ids : id >= other

\* buffers.insert(BufferId::next(), buffer)
InsertBuffer(e, immortal) ==
    [e EXCEPT !.buffers = [id \in BufferIds(e) \cup {e.ids} |->
                              IF id = e.ids THEN immortal ELSE e.buffers[id]],
              !.ids = e.ids + 1]

\* Editor::add_buffer_and_document(buffer, document, set_current)
Editor_add_buffer_and_document(e, immortal, set_current) ==
    LET added == InsertBuffer(e, immortal)
    IN  IF set_current THEN [added EXCEPT !.current = e.ids] ELSE added

\* buffers.remove(&id)
RemoveBuffer(e, removed) ==
    [e EXCEPT !.buffers = [id \in BufferIds(e) \ {removed} |-> e.buffers[id]]]

\* buffer_next(ctx); unwrap panics when there is no buffer
buffer_next(e) ==
    LET curr == e.current
        after == {id \in BufferIds(e) : id > curr}
    IN  IF BufferIds(e) = {} THEN [editor |-> e, ok |-> FALSE]
        ELSE [editor |-> [e EXCEPT !.current =
                            IF after # {} THEN FirstId(after)
                            ELSE FirstId(BufferIds(e))],
              ok |-> TRUE]

\* buffer_prev(ctx); unwrap panics when there is no buffer
buffer_prev(e) ==
    LET curr == e.current
        before == {id \in BufferIds(e) : id < curr}
    IN  IF BufferIds(e) = {} THEN [editor |-> e, ok |-> FALSE]
        ELSE [editor |-> [e EXCEPT !.current =
                            IF before # {} THEN LastId(before)
                            ELSE LastId(BufferIds(e))],
              ok |-> TRUE]

\* buffer_create(ctx)
buffer_create(e) ==
    [editor |-> Editor_add_buffer_and_document(e, FALSE, TRUE), ok |-> TRUE]

\* buffer_kill that does not look at the immortal flag
buffer_kill_any(e) ==
    IF e.current \notin BufferIds(e) THEN [editor |-> e, ok |-> FALSE]
    ELSE LET removed == RemoveBuffer(e, e.current)
         IN  IF BufferIds(removed) = {} THEN buffer_create(removed)
             ELSE buffer_prev(removed)

\* buffer_kill(ctx); unwrap panics when current is not a buffer
buffer_kill(e) ==
    IF e.current \notin BufferIds(e) THEN [editor |-> e, ok |-> FALSE]
    ELSE IF e.buffers[e.current] THEN [editor |-> e, ok |-> TRUE]
    ELSE LET removed == RemoveBuffer(e, e.current)
         IN  IF BufferIds(removed) = {} THEN buffer_create(removed)
             ELSE buffer_prev(removed)

-----------------------------------------------------------------------------
(* SpecEditor: an editor with its buffers, on which buffer_create,         *)
(* buffer_kill, buffer_next and buffer_prev are dispatched                 *)

\* documents opened from the arguments
MaxOpened == 2
\* buffer commands dispatched
MaxBufferCmds == 4

RECURSIVE Opened(_, _)
\* Editor::open for each of n arguments; the first one opened becomes
\* current
Opened(e, n) ==
    IF n = 0 THEN e
    ELSE LET before == Opened(e, n - 1)
         IN  Editor_add_buffer_and_document(before, FALSE, n = 1)

\* the editor App::run starts with: the logging buffer, then the documents
\* of the arguments, or one scratch buffer when none was opened
App_run(opened) ==
    LET logging == InsertBuffer(Editor_init, TRUE)
    IN  IF opened = 0 THEN Editor_add_buffer_and_document(logging, FALSE, TRUE)
        ELSE Opened(logging, opened)

\* the editor test_cmd builds: one text buffer, made current
test_cmd == Editor_add_buffer_and_document(Editor_init, FALSE, TRUE)

\* the ids of the buffers that are immortal
Immortals(e) == {id \in BufferIds(e) : e.buffers[id]}

\* What a command records in last: its name, the buffers that were
\* immortal when the editor started, and the current buffer it ran on
EditorLast(op, immortals, curr) ==
    [op |-> op, immortals |-> immortals, curr |-> curr]

InitEditor ==
    /\ \/ \E opened \in 0..MaxOpened : editor = App_run(opened)
       \/ editor = test_cmd
    /\ last = EditorLast("none", Immortals(editor), editor.current)
    /\ doc = Document_new(<<>>)
    /\ buf = Buffer_new_text(0, Document_new(<<>>)).buf
    /\ sel = NoSelection
    /\ panicked = FALSE
    /\ cmds = 0
    /\ keys = 0
    /\ TxIdle
    /\ SpanIdle

EditorStep(r, op) ==
    /\ ~panicked /\ cmds < MaxBufferCmds
    /\ editor' = r.editor
    /\ panicked' = ~r.ok
    /\ last' = EditorLast(op, last.immortals, editor.current)
    /\ cmds' = cmds + 1
    /\ UNCHANGED <<doc, buf, sel, keys, txvars, spanvars>>

BufferNext == EditorStep(buffer_next(editor), "buffer_next")

BufferPrev == EditorStep(buffer_prev(editor), "buffer_prev")

BufferCreate == EditorStep(buffer_create(editor), "buffer_create")

BufferKill == EditorStep(buffer_kill(editor), "buffer_kill")

NextEditor ==
    \/ BufferNext
    \/ BufferPrev
    \/ BufferCreate
    \/ BufferKill

SpecEditor == InitEditor /\ [][NextEditor]_vars

-----------------------------------------------------------------------------
(* Properties of buffer management, under SpecEditor                       *)

\* C37: after any sequence of buffer_create, buffer_kill, buffer_next and
\* buffer_prev on an editor with at least one buffer, no command has
\* aborted, editor.current is the id of a buffer in editor.buffers, the set
\* of buffers is not empty, and every immortal buffer is still there.
C37_CurrentIsABuffer ==
    /\ ~panicked
    /\ editor.current \in BufferIds(editor)
    /\ BufferIds(editor) # {}
    /\ last.immortals \subseteq BufferIds(editor)
    /\ \A id \in last.immortals : editor.buffers[id]

\* buffer_kill was dispatched on the immortal logging buffer, after other
\* buffers had been killed
C37_Witness ==
    /\ last.op = "buffer_kill"
    /\ last.curr \in last.immortals
    /\ editor.current = last.curr
    /\ Cardinality(BufferIds(editor)) = 1

\* buffer_kill removed the only buffer of an editor and created a new one
C37_WitnessLast ==
    /\ last.op = "buffer_kill"
    /\ last.immortals = {}
    /\ BufferIds(editor) = {editor.current}
    /\ editor.current # last.curr

\* buffer_kill removed the first buffer and buffer_prev wrapped around to
\* the last one
C37_WitnessWrap ==
    /\ last.op = "buffer_kill"
    /\ last.curr \notin BufferIds(editor)
    /\ editor.current > last.curr
    /\ Cardinality(BufferIds(editor)) >= 2

====
